---- MODULE Spec2Model ----
(***************************************************************************)
(* Model of jolajoamemo (src-tauri): the memo store and the input_memo     *)
(* merge-or-insert command, the secret-key vault with its envelope         *)
(* encryption, and the cancellable directory scan.                         *)
(*                                                                         *)
(* Strings are sequences of one-character strings (memo text) or of byte   *)
(* values 0..255 (secret values, base64 text).                             *)
(***************************************************************************)
EXTENDS Integers, Sequences, FiniteSets, TLC

VARIABLES
    foreign_keys,    \* whether the linked SQLite enforces FOREIGN KEY clauses
    memos,           \* table memos: id -> row
    memo_seq,        \* AUTOINCREMENT counter of memos
    schedules,       \* table schedules: id -> row
    todos,           \* table todos: id -> row
    transactions,    \* table transactions: id -> row
    child_seq,       \* AUTOINCREMENT counters of schedules / todos / transactions
    im_pc,           \* input_memo: position of the running command
    im_content,      \* input_memo: argument `content`
    existing_memos,  \* input_memo: the list fetched by get_all_memos
    im_left,         \* input_memo: items of the analysis not yet processed
    im_item,         \* input_memo: the analysis item being processed
    im_memo_id,      \* input_memo: local `memo_id` of the current item
    im_pending,      \* input_memo: derived rows of the current item still to save
    im_result,       \* input_memo: what the last command returned
    commands,        \* number of commands issued so far
    items_returned,  \* number of analysis items the remote model returned so far
    settings,        \* table settings: key -> value
    ENCRYPTION_KEY,  \* the key loaded by init_db for this run of the process
    secret_keys,     \* table secret_keys: id -> row
    secret_seq,      \* AUTOINCREMENT counter of secret_keys
    sk_written,      \* observer: id -> the value the caller passed and the key of that run
    vault_commands,  \* number of vault commands and restarts so far
    SCAN_CANCELLED,  \* the process-wide cancellation flag
    scan_pc,         \* per scan_for_consulting call: its position
    stack,           \* per call: the work stack of (directory, depth)
    cancelled,       \* per call: local `cancelled`
    entries,         \* per call: entries of the directory being iterated
    dir_depth,       \* per call: depth of the directory being iterated
    all_files,       \* per call: files collected so far
    total_folders,   \* per call: folders counted so far
    on_file,         \* per call: the callback invocations so far
    read_dirs,       \* observer, per call: the directories read so far
    popped,          \* observer, per call: the (dir, depth) pairs popped so far
    set_during,      \* observer, per call: the flag was set while it ran and stayed set
    scan_result,     \* per call: what it returned
    cost_obs,        \* observer: the last cost computation and its result
    DB,              \* the global mutex: the thread holding it, 0 when free
    db_fn,           \* per thread: the db function it is executing
    db_outer,        \* per thread: the db function that called db_fn, if any
    db_pc,           \* per thread: its position in db_fn
    db_left,         \* per thread: statements db_fn has still to execute
    db_result,       \* per thread: what its last db call returned
    eb_pc,           \* extract_data_batch: position
    eb_urls,         \* extract_data_batch: the urls argument
    eb_results,      \* extract_data_batch: the results vector
    eb_outcomes,     \* observer: what extract_data_from_url returned, per url
    eb_return,       \* extract_data_batch: the returned value
    remote_calls,    \* requests sent to the generative-AI service so far
    api_usage,       \* rows written by the AI commands so far
    cmd_obs,         \* observer: the last AI command, the key it read, its result
    ag_pc,           \* run_agent: position
    ag_input,        \* run_agent: the max_steps argument
    max_steps,       \* run_agent: the shadowed max_steps, after the cap
    step_num,        \* run_agent: the loop variable
    steps,           \* run_agent: the recorded steps
    ag_totals,       \* run_agent: total_input_tokens, total_output_tokens, total_cost
    ag_progress,     \* observer: the steps passed to on_progress, in call order
    ag_decided,      \* observer: what each decide_next_action call returned
    ag_result,       \* run_agent: the returned value
    page,            \* run_agent: the page of browser.new_page: none, open or closed
    rs_pc,           \* run_research: position
    rs_engines,      \* run_research: has_naver, has_google
    tasks,           \* run_research: the status of the seven tasks
    events,          \* the 'research-progress' events emitted, in order
    search_queries,  \* run_research: the number of planned queries
    rs_idx,          \* run_research: items of the current loop already handled
    all_search_results, \* run_research: the links of the search results
    selected_urls,   \* run_research: the urls chosen for crawling
    crawled_contents,   \* run_research: the urls whose page was fetched
    all_insights,    \* run_research: the number of pages that gave insights
    source_summaries,   \* run_research: the urls that were summarised
    rs_skipped,      \* observer: the loops in which an item failed
    rs_result,       \* run_research: the returned value
    ra,              \* reanalyze_memo: its position, arguments, locals and result
    att,             \* the attachments table and one get_and_delete_attachments_by_memo call
    br,              \* the two browser caches, their mutexes and the callers of the getters
    postits,         \* the postits table, the post-it windows and the last open_widget
    mk,              \* mask_sensitive_info / unmask_text: the text, the result, the restored text
    ej,              \* extract_json: the reply and the results of one and two applications
    obs              \* observer: the last operation and what it did

memo_vars == <<foreign_keys, memos, memo_seq, schedules, todos, transactions,
               child_seq, im_pc, im_content, existing_memos, im_left, im_item,
               im_memo_id, im_pending, im_result, commands, items_returned>>

vault_vars == <<settings, ENCRYPTION_KEY, secret_keys, secret_seq, sk_written,
                vault_commands>>

scan_vars == <<SCAN_CANCELLED, scan_pc, stack, cancelled, entries, dir_depth,
               all_files, total_folders, on_file, read_dirs, popped,
               set_during,
               scan_result>>

cost_vars == <<cost_obs>>

lock_vars == <<DB, db_fn, db_outer, db_pc, db_left, db_result>>

batch_vars == <<eb_pc, eb_urls, eb_results, eb_outcomes, eb_return>>

key_vars == <<remote_calls, api_usage, cmd_obs>>

agent_vars == <<ag_pc, ag_input, max_steps, step_num, steps, ag_totals, ag_progress,
                ag_decided, ag_result,
                page>>

research_vars == <<rs_pc, rs_engines, tasks, events, search_queries, rs_idx,
                   all_search_results, selected_urls, crawled_contents, all_insights,
                   source_summaries, rs_skipped, rs_result>>

ext_vars == <<ra, att, br, postits, mk, ej>>

ai_vars == <<cost_vars, lock_vars, batch_vars, key_vars, agent_vars, research_vars,
             ext_vars>>

\* the locals of input_memo and the command counters
im_vars == <<im_pc, im_content, existing_memos, im_left, im_item, im_memo_id,
             im_pending, im_result, commands, items_returned>>

\* everything but the memo tables and the variables of the later sections
other_vars == <<vault_vars, scan_vars, cost_vars, lock_vars, batch_vars, key_vars,
                agent_vars, research_vars, obs>>

vars == <<memo_vars, vault_vars, scan_vars, ai_vars, obs>>

(***************************************************************************)
(* Bounds                                                                  *)
(***************************************************************************)
MaxCommands == 3    \* commands issued per behaviour
MaxItems == 3       \* analysis items returned by the remote model per behaviour
MaxVaultCommands == 3   \* vault commands and restarts per behaviour
MaxStoredRows == 3      \* secret_keys rows of a database file found at start
MaxScans == 2           \* scan_for_consulting calls per behaviour, possibly concurrent
MaxTokens == 2          \* token counts reported by the remote model
MaxThreads == 2         \* threads calling db functions at the same time
MaxUrls == 2            \* urls in one extract_data_batch call
MaxRemoteCalls == 2     \* AI commands run with an API key configured
MaxRequestedSteps == 2  \* small max_steps arguments of run_browser_agent
MaxFailedActions == 1   \* actions of one agent run that fail to execute
MaxQueries == 2         \* search queries planned by one research run
MaxPages == 2           \* pages selected for crawling by one research run
MaxReanalyses == 1      \* reanalyze_memo commands per behaviour
MaxAttachments == 4     \* rows ever inserted into the attachments table
MaxDeleteCalls == 3     \* get_and_delete_attachments_by_memo calls per behaviour
MaxCallers == 2         \* tasks calling the browser getters
MaxBrowserCalls == 3    \* calls of the browser getters per behaviour
MaxPostitWindows == 11  \* post-it windows opened with a fresh id per behaviour
MaxWords == 3           \* words of an input text of mask_sensitive_info
MaxParts == 4           \* pieces of a model reply given to extract_json

\* SQL NULL / Option::None of an integer column (row ids start at 1)
NULL == 0

\* Option<T> of a non-integer value: None is <<>>, Some(x) is <<x>>
None == <<>>
Some(x) == <<x>>

(***************************************************************************)
(* String helpers                                                          *)
(***************************************************************************)
\* the literal "\n\n---\n\n" of the two format! calls
Separator == <<"\n", "\n", "-", "-", "-", "\n", "\n">>

merge_format_swapped(a, b) == b \o Separator \o a

\* format!("{}\n\n---\n\n{}", a, b)
merge_format(a, b) == a \o Separator \o b

RECURSIVE join(_, _)
\* Vec<String>::join(sep)
join(list, sep) ==
    IF list = <<>> THEN <<>>
    ELSE IF Len(list) = 1 THEN list[1]
    ELSE list[1] \o sep \o join(Tail(list), sep)

CommaSpace == <<",", " ">>

merged_tags_overwrite(existing_tags, tags_str) == tags_str

\* lib.rs: merged_tags
merged_tags(existing_tags, tags_str) ==
    IF existing_tags = <<>> THEN tags_str
    ELSE existing_tags \o CommaSpace \o tags_str

(***************************************************************************)
(* db/mod.rs: tables                                                       *)
(***************************************************************************)
EmptyTable == [x \in {} |-> NULL]

\* INSERT: the row gets the next AUTOINCREMENT id
insert_row(tbl, id, row) == [x \in DOMAIN tbl \cup {id} |-> IF x = id THEN row ELSE tbl[x]]

\* DELETE ... WHERE id IN ids
delete_rows(tbl, ids) == [x \in DOMAIN tbl \ ids |-> tbl[x]]

\* FOREIGN KEY (memo_id) REFERENCES memos(id) ON DELETE SET NULL, applied to a
\* child table when the memos in `ids` are deleted; inert when the SQLite
\* library does not enforce foreign keys (no PRAGMA foreign_keys in the source)
on_delete_set_null(fk, child, ids) ==
    IF fk
    THEN [x \in DOMAIN child |->
            IF child[x].memo_id \in ids
            THEN [child[x] EXCEPT !.memo_id = NULL]
            ELSE child[x]]
    ELSE child

\* the FOREIGN KEY check of an INSERT into a child table
fk_insert_ok(fk, tbl, memo_id) == (~fk) \/ memo_id = NULL \/ memo_id \in DOMAIN tbl

\* db::save_memo
db_save_memo(tbl, id, memo) == insert_row(tbl, id, memo)

where_id_any(tbl, id) == DOMAIN tbl

\* the rows a statement with `WHERE id = ?` applies to
where_id(tbl, id) == {x \in DOMAIN tbl : x = id}

\* db::update_memo (UPDATE memos SET content, formatted_content, summary, tags,
\* embedding WHERE id)
db_update_memo(tbl, id, content, formatted_content, summary, tags, embedding) ==
    [x \in DOMAIN tbl |->
        IF x \in where_id(tbl, id)
        THEN [tbl[x] EXCEPT !.content = content,
                            !.formatted_content = formatted_content,
                            !.summary = summary,
                            !.tags = tags,
                            !.embedding = embedding]
        ELSE tbl[x]]

\* db::update_memo_full
db_update_memo_full(tbl, id, title, formatted_content, category, tags, content) ==
    [x \in DOMAIN tbl |->
        IF x \in where_id(tbl, id)
        THEN IF content # None
             THEN [tbl[x] EXCEPT !.title = title,
                                 !.formatted_content = formatted_content,
                                 !.category = category,
                                 !.tags = tags,
                                 !.content = content[1]]
             ELSE [tbl[x] EXCEPT !.title = title,
                                 !.formatted_content = formatted_content,
                                 !.category = category,
                                 !.tags = tags]
        ELSE tbl[x]]

\* db::delete_memo (DELETE FROM memos WHERE id)
db_delete_memo(tbl, id) == delete_rows(tbl, where_id(tbl, id))

\* db::delete_all_memos (DELETE FROM memos)
db_delete_all_memos(tbl) == delete_rows(tbl, DOMAIN tbl)

\* db::save_schedule / save_todo / save_transaction
db_save_child(tbl, id, memo_id, title) ==
    insert_row(tbl, id, [memo_id |-> memo_id, title |-> title])

(***************************************************************************)
(* Inputs                                                                  *)
(***************************************************************************)
\* the text the user submits when input_memo is the k-th command
Letters == <<"p", "q", "r", "v">>
Contents(k) == { <<Letters[((k - 1) % Len(Letters)) + 1]>> }

\* the analysis items the remote model may return, up to should_merge_with
ItemShapes ==
    { [title |-> <<"A">>, formatted_content |-> <<"f">>, summary |-> <<"s">>,
       category |-> <<"c">>, tags |-> << <<"t">>, <<"u">> >>,
       schedules |-> << <<"m">> >>, todos |-> << <<"n">> >>,
       transactions |-> << <<"o">> >>],
      [title |-> <<"B">>, formatted_content |-> <<"g">>, summary |-> <<"r">>,
       category |-> <<"d">>, tags |-> <<>>,
       schedules |-> <<>>, todos |-> <<>>, transactions |-> <<>>] }

\* the values of should_merge_with the remote model may return
MergeTargets == {NULL, 1, 2}

AnalysisItems ==
    { [title |-> t.title, formatted_content |-> t.formatted_content,
       summary |-> t.summary, category |-> t.category, tags |-> t.tags,
       should_merge_with |-> m,
       schedules |-> t.schedules, todos |-> t.todos,
       transactions |-> t.transactions] :
      t \in ItemShapes, m \in MergeTargets }

NoPending == [schedules |-> <<>>, todos |-> <<>>, transactions |-> <<>>]

(***************************************************************************)
(* lib.rs: input_memo, as the steps between which other commands may run   *)
(* (every db:: call takes and releases the global mutex on its own)        *)
(***************************************************************************)
Idle(o) ==
    /\ im_pc' = "idle"
    /\ im_content' = <<>>
    /\ existing_memos' = EmptyTable
    /\ im_left' = 0
    /\ im_item' = None
    /\ im_memo_id' = NULL
    /\ im_pending' = NoPending
    /\ obs' = o

\* lines 46-63: the key check and the fetch of the existing memos
input_memo_start(content) ==
    /\ im_pc = "idle"
    /\ commands < MaxCommands
    /\ commands' = commands + 1
    /\ im_pc' = "analyze"
    /\ im_content' = content
    /\ existing_memos' = memos
    /\ im_result' = "running"
    /\ obs' = [op |-> "input_memo_start"]
    /\ UNCHANGED <<ai_vars, scan_vars, vault_vars, foreign_keys, memos, memo_seq, schedules, todos, transactions,
                   child_seq, im_left, im_item, im_memo_id, im_pending, items_returned>>

\* lines 66-87: the remote analysis returned n items and the usage was logged
input_memo_analyzed(n) ==
    /\ im_pc = "analyze"
    /\ im_pc' = "item"
    /\ im_left' = n
    /\ items_returned' = items_returned + n
    /\ obs' = [op |-> "input_memo_analyzed"]
    /\ UNCHANGED <<ai_vars, scan_vars, vault_vars, foreign_keys, memos, memo_seq, schedules, todos, transactions,
                   child_seq, im_content, existing_memos, im_item, im_memo_id,
                   im_pending, im_result, commands>>

\* line 66: the remote analysis failed (`?`)
input_memo_analysis_failed ==
    /\ im_pc = "analyze"
    /\ im_result' = "Err"
    /\ Idle([op |-> "input_memo_analysis_failed"])
    /\ UNCHANGED <<ai_vars, scan_vars, vault_vars, foreign_keys, memos, memo_seq, schedules, todos, transactions,
                   child_seq, commands, items_returned>>

\* what one item did to table memos, as seen from the tables before and after
ItemEffect(analysis, before, after, matched) ==
    LET merge_id == analysis.should_merge_with IN
    [op |-> "input_memo_item",
     item |-> analysis,
     content |-> im_content,
     existing |-> IF merge_id \in DOMAIN existing_memos
                  THEN Some(existing_memos[merge_id]) ELSE None,
     before |-> IF merge_id \in DOMAIN before THEN Some(before[merge_id]) ELSE None,
     after |-> IF merge_id \in DOMAIN after THEN Some(after[merge_id]) ELSE None,
     updated |-> matched,
     changed |-> {x \in DOMAIN before \cap DOMAIN after : before[x] # after[x]},
     inserted |-> DOMAIN after \ DOMAIN before,
     deleted |-> DOMAIN before \ DOMAIN after]

find_in_table(fetched, rows, merge_id) ==
    IF merge_id \in DOMAIN rows THEN rows[merge_id] ELSE fetched[merge_id]

\* line 95: existing_memos.iter().find(|m| m.id == merge_id), the memo as it
\* was fetched on line 56; the table is not read again
find(fetched, rows, merge_id) == fetched[merge_id]

\* lines 89-142: the merge-or-insert decision for the next item
input_memo_item(analysis) ==
    /\ im_pc = "item"
    /\ im_left > 0
    /\ LET tags_str == join(analysis.tags, CommaSpace)
           merge_id == analysis.should_merge_with
       IN  /\ IF merge_id # NULL
              THEN IF merge_id \in DOMAIN existing_memos
                   THEN LET existing == find(existing_memos, memos, merge_id)
                            merged_content == merge_format(existing.content, im_content)
                            merged_formatted == merge_format(existing.formatted_content,
                                                             analysis.formatted_content)
                        IN  /\ memos' = db_update_memo(memos, merge_id, merged_content,
                                                       merged_formatted, analysis.summary,
                                                       merged_tags(existing.tags, tags_str),
                                                       None)
                            /\ memo_seq' = memo_seq
                            /\ im_memo_id' = merge_id
                   ELSE /\ UNCHANGED <<memos, memo_seq>>
                        /\ im_memo_id' = NULL
              ELSE LET new_memo == [title |-> analysis.title,
                                    content |-> im_content,
                                    formatted_content |-> analysis.formatted_content,
                                    summary |-> analysis.summary,
                                    category |-> analysis.category,
                                    tags |-> tags_str,
                                    embedding |-> None]
                   IN  /\ memos' = db_save_memo(memos, memo_seq + 1, new_memo)
                       /\ memo_seq' = memo_seq + 1
                       /\ im_memo_id' = memo_seq + 1
           /\ obs' = ItemEffect(analysis, memos, memos',
                                 IF merge_id \in DOMAIN existing_memos
                                 THEN where_id(memos, merge_id) ELSE {})
    /\ im_item' = Some(analysis)
    /\ im_pending' = [schedules |-> analysis.schedules, todos |-> analysis.todos,
                      transactions |-> analysis.transactions]
    /\ im_pc' = "derived"
    /\ UNCHANGED <<ai_vars, scan_vars, vault_vars, foreign_keys, schedules, todos, transactions, child_seq,
                   im_content, existing_memos, im_left, im_result, commands, items_returned>>

\* the derived row kind the loops of lines 145-190 save next
NextKind(pending) ==
    IF pending.schedules # <<>> THEN "schedules"
    ELSE IF pending.todos # <<>> THEN "todos"
    ELSE IF pending.transactions # <<>> THEN "transactions"
    ELSE "none"

\* lines 145-159: db::save_schedule for the next schedule of the item
input_memo_save_schedule ==
    /\ im_pc = "derived"
    /\ NextKind(im_pending) = "schedules"
    /\ fk_insert_ok(foreign_keys, memos, im_memo_id)
    /\ schedules' = db_save_child(schedules, child_seq.schedules + 1, im_memo_id,
                                  Head(im_pending.schedules))
    /\ child_seq' = [child_seq EXCEPT !.schedules = @ + 1]
    /\ im_pending' = [im_pending EXCEPT !.schedules = Tail(@)]
    /\ obs' = [op |-> "input_memo_save_schedule", id |-> child_seq.schedules + 1,
               memo_id |-> im_memo_id]
    /\ UNCHANGED <<ai_vars, scan_vars, vault_vars, foreign_keys, memos, memo_seq, todos, transactions, im_pc,
                   im_content, existing_memos, im_left, im_item, im_memo_id,
                   im_result, commands, items_returned>>

\* lines 162-174: db::save_todo for the next todo of the item
input_memo_save_todo ==
    /\ im_pc = "derived"
    /\ NextKind(im_pending) = "todos"
    /\ fk_insert_ok(foreign_keys, memos, im_memo_id)
    /\ todos' = db_save_child(todos, child_seq.todos + 1, im_memo_id,
                              Head(im_pending.todos))
    /\ child_seq' = [child_seq EXCEPT !.todos = @ + 1]
    /\ im_pending' = [im_pending EXCEPT !.todos = Tail(@)]
    /\ obs' = [op |-> "input_memo_save_todo", id |-> child_seq.todos + 1,
               memo_id |-> im_memo_id]
    /\ UNCHANGED <<ai_vars, scan_vars, vault_vars, foreign_keys, memos, memo_seq, schedules, transactions, im_pc,
                   im_content, existing_memos, im_left, im_item, im_memo_id,
                   im_result, commands, items_returned>>

\* lines 177-190: db::save_transaction for the next transaction of the item
input_memo_save_transaction ==
    /\ im_pc = "derived"
    /\ NextKind(im_pending) = "transactions"
    /\ fk_insert_ok(foreign_keys, memos, im_memo_id)
    /\ transactions' = db_save_child(transactions, child_seq.transactions + 1,
                                     im_memo_id, Head(im_pending.transactions))
    /\ child_seq' = [child_seq EXCEPT !.transactions = @ + 1]
    /\ im_pending' = [im_pending EXCEPT !.transactions = Tail(@)]
    /\ obs' = [op |-> "input_memo_save_transaction",
               id |-> child_seq.transactions + 1, memo_id |-> im_memo_id]
    /\ UNCHANGED <<ai_vars, scan_vars, vault_vars, foreign_keys, memos, memo_seq, schedules, todos, im_pc,
                   im_content, existing_memos, im_left, im_item, im_memo_id,
                   im_result, commands, items_returned>>

\* lines 157, 172, 188: the INSERT violates the foreign key (the memo of the
\* item was deleted meanwhile) and `?` returns the error
input_memo_save_failed ==
    /\ im_pc = "derived"
    /\ NextKind(im_pending) # "none"
    /\ ~fk_insert_ok(foreign_keys, memos, im_memo_id)
    /\ im_result' = "Err"
    /\ Idle([op |-> "input_memo_save_failed"])
    /\ UNCHANGED <<ai_vars, scan_vars, vault_vars, foreign_keys, memos, memo_seq, schedules, todos, transactions,
                   child_seq, commands, items_returned>>

rollback_to_fetch(rows_now, rows_fetched) == rows_fetched

\* `.map_err(|e| e.to_string())?` on a db:: call that failed: the command
\* returns, the table is left as it is
propagate_error(rows_now, rows_fetched) == rows_now

\* lines 107-190: SQLite reported an error to db::update_memo or db::save_memo
\* of the next item, or to the db::save_* of the next derived row
input_memo_db_error ==
    /\ \/ im_pc = "item" /\ im_left > 0
       \/ im_pc = "derived" /\ NextKind(im_pending) # "none"
    /\ memos' = propagate_error(memos, existing_memos)
    /\ im_result' = "Err"
    /\ Idle([op |-> "input_memo_db_error", at |-> im_pc,
             before |-> [memos |-> memos, schedules |-> schedules, todos |-> todos,
                         transactions |-> transactions]])
    /\ UNCHANGED <<ai_vars, scan_vars, vault_vars, foreign_keys, memo_seq, schedules,
                   todos, transactions, child_seq, commands, items_returned>>

\* line 191: end of the loop body
input_memo_item_done ==
    /\ im_pc = "derived"
    /\ NextKind(im_pending) = "none"
    /\ im_pc' = "item"
    /\ im_left' = im_left - 1
    /\ im_item' = None
    /\ im_memo_id' = NULL
    /\ obs' = [op |-> "input_memo_item_done"]
    /\ UNCHANGED <<ai_vars, scan_vars, vault_vars, foreign_keys, memos, memo_seq, schedules, todos, transactions,
                   child_seq, im_content, existing_memos, im_pending, im_result,
                   commands, items_returned>>

\* lines 193-222: Ok(InputResult)
input_memo_return ==
    /\ im_pc = "item"
    /\ im_left = 0
    /\ im_result' = "Ok"
    /\ Idle([op |-> "input_memo_return"])
    /\ UNCHANGED <<ai_vars, scan_vars, vault_vars, foreign_keys, memos, memo_seq, schedules, todos, transactions,
                   child_seq, commands, items_returned>>

(***************************************************************************)
(* lib.rs: the other memo commands, each one db:: call                     *)
(***************************************************************************)
\* the tables a delete command found, and the memo ids it names
DeleteEffect(name, ids) ==
    [op |-> name, deleted |-> ids \cap DOMAIN memos,
     before |-> [schedules |-> schedules, todos |-> todos,
                 transactions |-> transactions]]

\* lib.rs delete_memo -> db::delete_memo
delete_memo(id) ==
    /\ commands < MaxCommands
    /\ commands' = commands + 1
    /\ memos' = db_delete_memo(memos, id)
    /\ schedules' = on_delete_set_null(foreign_keys, schedules, where_id(memos, id))
    /\ todos' = on_delete_set_null(foreign_keys, todos, where_id(memos, id))
    /\ transactions' = on_delete_set_null(foreign_keys, transactions,
                                          where_id(memos, id))
    /\ obs' = DeleteEffect("delete_memo", {id})
    /\ UNCHANGED <<ai_vars, scan_vars, vault_vars, foreign_keys, memo_seq, child_seq, im_pc, im_content,
                   existing_memos, im_left, im_item, im_memo_id, im_pending,
                   im_result, items_returned>>

\* lib.rs delete_all_memos -> db::delete_all_memos
delete_all_memos ==
    /\ commands < MaxCommands
    /\ commands' = commands + 1
    /\ memos' = db_delete_all_memos(memos)
    /\ schedules' = on_delete_set_null(foreign_keys, schedules, DOMAIN memos)
    /\ todos' = on_delete_set_null(foreign_keys, todos, DOMAIN memos)
    /\ transactions' = on_delete_set_null(foreign_keys, transactions, DOMAIN memos)
    /\ obs' = DeleteEffect("delete_all_memos", DOMAIN memos)
    /\ UNCHANGED <<ai_vars, scan_vars, vault_vars, foreign_keys, memo_seq, child_seq, im_pc, im_content,
                   existing_memos, im_left, im_item, im_memo_id, im_pending,
                   im_result, items_returned>>

\* lib.rs update_memo (edit) -> db::update_memo_full
update_memo(id, title, formatted_content, category, tags, content) ==
    /\ commands < MaxCommands
    /\ commands' = commands + 1
    /\ memos' = db_update_memo_full(memos, id, title, formatted_content, category,
                                    tags, content)
    /\ obs' = [op |-> "update_memo", id |-> id]
    /\ UNCHANGED <<ai_vars, scan_vars, vault_vars, foreign_keys, memo_seq, schedules, todos, transactions,
                   child_seq, im_pc, im_content, existing_memos, im_left, im_item,
                   im_memo_id, im_pending, im_result, items_returned>>

(***************************************************************************)
(* db/mod.rs: envelope encryption of secret values.  Text and binary data  *)
(* are sequences of byte values.                                           *)
(***************************************************************************)
RECURSIVE SumTo(_, _)
SumTo(bytes, n) == IF n = 0 THEN 0 ELSE bytes[n] + SumTo(bytes, n - 1)

Sum(bytes) == SumTo(bytes, Len(bytes))

Take(seq, n) == SubSeq(seq, 1, n)
Drop(seq, n) == SubSeq(seq, n + 1, Len(seq))

Ok(v) == [ok |-> TRUE, value |-> v]
Err == [ok |-> FALSE, value |-> <<>>]

\* Result::unwrap_or
unwrap_or_empty(result, default) == IF result.ok THEN result.value ELSE <<>>

unwrap_or(result, default) == IF result.ok THEN result.value ELSE default

\* the base64 STANDARD alphabet: the character of a 6-bit value
B64Char(v) ==
    IF v < 26 THEN 65 + v
    ELSE IF v < 52 THEN 97 + (v - 26)
    ELSE IF v < 62 THEN 48 + (v - 52)
    ELSE IF v = 62 THEN 43 ELSE 47

\* the 6-bit value of a character, -1 for a character outside the alphabet
B64Val(c) ==
    IF c >= 65 /\ c <= 90 THEN c - 65
    ELSE IF c >= 97 /\ c <= 122 THEN c - 97 + 26
    ELSE IF c >= 48 /\ c <= 57 THEN c - 48 + 52
    ELSE IF c = 43 THEN 62
    ELSE IF c = 47 THEN 63 ELSE -1

Pad == 61    \* '='

\* BASE64.encode (STANDARD engine: padded): output character k
BASE64_encode(bytes) ==
    LET n == Len(bytes)
        byte(i) == IF i <= n THEN bytes[i] ELSE 0
        char(k) ==
            LET g == 3 * ((k - 1) \div 4)
                p == (k - 1) % 4
            IN  IF p = 0 THEN B64Char(byte(g + 1) \div 4)
                ELSE IF p = 1
                THEN B64Char((byte(g + 1) % 4) * 16 + byte(g + 2) \div 16)
                ELSE IF p = 2
                THEN IF g + 2 <= n
                     THEN B64Char((byte(g + 2) % 16) * 4 + byte(g + 3) \div 64)
                     ELSE Pad
                ELSE IF g + 3 <= n THEN B64Char(byte(g + 3) % 64) ELSE Pad
    IN  [k \in 1..(4 * ((n + 2) \div 3)) |-> char(k)]

\* BASE64.decode (STANDARD engine: canonical padding required)
BASE64_decode(text) ==
    LET n == Len(text)
        pads == IF n = 0 \/ text[n] # Pad THEN 0
                ELSE IF text[n - 1] = Pad THEN 2 ELSE 1
        val(i) == B64Val(text[i])
        byte(j) ==
            LET g == 4 * ((j - 1) \div 3)
                p == (j - 1) % 3
            IN  IF p = 0 THEN val(g + 1) * 4 + val(g + 2) \div 16
                ELSE IF p = 1 THEN (val(g + 2) % 16) * 16 + val(g + 3) \div 4
                ELSE (val(g + 3) % 4) * 64 + val(g + 4)
    IN  IF n % 4 # 0 THEN Err
        ELSE IF \E i \in 1..(n - pads) : val(i) < 0 THEN Err
        ELSE IF pads = 2 /\ val(n - 2) % 16 # 0 THEN Err
        ELSE IF pads = 1 /\ val(n - 1) % 4 # 0 THEN Err
        ELSE Ok([j \in 1..(3 * (n \div 4) - pads) |-> byte(j)])

RECURSIVE utf8_valid(_)
\* String::from_utf8: whether the bytes are well-formed UTF-8
utf8_valid(b) ==
    LET cont(i) == i <= Len(b) /\ b[i] >= 128 /\ b[i] <= 191 IN
    IF b = <<>> THEN TRUE
    ELSE IF b[1] < 128 THEN utf8_valid(Drop(b, 1))
    ELSE IF b[1] >= 194 /\ b[1] <= 223 THEN cont(2) /\ utf8_valid(Drop(b, 2))
    ELSE IF b[1] >= 224 /\ b[1] <= 239 THEN
        /\ cont(2) /\ cont(3)
        /\ (b[1] = 224 => b[2] >= 160)
        /\ (b[1] = 237 => b[2] <= 159)
        /\ utf8_valid(Drop(b, 3))
    ELSE IF b[1] >= 240 /\ b[1] <= 244 THEN
        /\ cont(2) /\ cont(3) /\ cont(4)
        /\ (b[1] = 240 => b[2] >= 144)
        /\ (b[1] = 244 => b[2] <= 143)
        /\ utf8_valid(Drop(b, 4))
    ELSE FALSE

NonceLen == 12
TagLen == 16
KeyLen == 32

\* Aes256Gcm as used by the vault: a keystream that depends on key and nonce,
\* and a tag that authenticates key, nonce and ciphertext
gcm_keystream(key, nonce) == (Sum(key) * 3 + Sum(nonce) * 5 + 1) % 256

gcm_tag(key, nonce, ct) ==
    LET mac == Sum(key) * 5 + Sum(nonce) * 3 + Sum(ct) * 11 + Len(ct)
    IN  [j \in 1..TagLen |-> (mac + j) % 256]

\* cipher.encrypt(nonce, plaintext): ciphertext followed by the tag
gcm_encrypt(key, nonce, pt) ==
    LET ks == gcm_keystream(key, nonce)
        ct == [i \in 1..Len(pt) |-> (pt[i] + ks + i * 7) % 256]
    IN  ct \o gcm_tag(key, nonce, ct)

\* cipher.decrypt(nonce, ciphertext): fails unless the tag authenticates
gcm_decrypt(key, nonce, data) ==
    IF Len(data) < TagLen THEN Err
    ELSE LET ct == Take(data, Len(data) - TagLen)
             tag == Drop(data, Len(data) - TagLen)
             ks == gcm_keystream(key, nonce)
         IN  IF tag # gcm_tag(key, nonce, ct) THEN Err
             ELSE Ok([i \in 1..Len(ct) |-> (ct[i] + 512 - ks - i * 7) % 256])

encrypt_value_plain(key, nonce_bytes, plaintext) == plaintext

encrypt_value_no_nonce(key, nonce_bytes, plaintext) ==
    BASE64_encode(gcm_encrypt(key, nonce_bytes, plaintext))

\* db::encrypt_value, with the key of ENCRYPTION_KEY and the nonce drawn by
\* rand::thread_rng
encrypt_value(key, nonce_bytes, plaintext) ==
    LET ciphertext == gcm_encrypt(key, nonce_bytes, plaintext)
        combined == nonce_bytes \o ciphertext
    IN  BASE64_encode(combined)

\* db::decrypt_value, with the key of ENCRYPTION_KEY
decrypt_value(key, encrypted) ==
    LET decoded == BASE64_decode(encrypted) IN
    IF ~decoded.ok THEN Err
    ELSE LET combined == decoded.value IN
         IF Len(combined) < NonceLen THEN Err
         ELSE LET nonce == Take(combined, NonceLen)
                  ciphertext == Drop(combined, NonceLen)
                  plaintext == gcm_decrypt(key, nonce, ciphertext)
              IN  IF ~plaintext.ok THEN Err
                  ELSE IF utf8_valid(plaintext.value) THEN Ok(plaintext.value)
                  ELSE Err

(***************************************************************************)
(* db/mod.rs: the settings table and the secret-key vault                  *)
(***************************************************************************)
\* settings keys and values, as text
K_language == <<108, 97, 110, 103, 117, 97, 103, 101>>
K_gemini_api_key == <<103, 101, 109, 105, 110, 105, 95, 97, 112, 105, 95, 107, 101, 121>>
K_attachment_copy_mode == <<97, 116, 116, 97, 99, 104, 109, 101, 110, 116, 95, 99, 111,
                            112, 121, 95, 109, 111, 100, 101>>
K_attachment_storage_path == <<97, 116, 116, 97, 99, 104, 109, 101, 110, 116, 95, 115,
                               116, 111, 114, 97, 103, 101, 95, 112, 97, 116, 104>>
K_encryption_key == <<101, 110, 99, 114, 121, 112, 116, 105, 111, 110, 95, 107, 101, 121>>

\* INSERT OR REPLACE INTO settings
insert_or_replace(tbl, key, value) ==
    [k \in DOMAIN tbl \cup {key} |-> IF k = key THEN value ELSE tbl[k]]

\* INSERT OR IGNORE INTO settings
insert_or_ignore(tbl, key, value) ==
    IF key \in DOMAIN tbl THEN tbl ELSE insert_or_replace(tbl, key, value)

\* init_db: the four INSERT OR IGNORE statements of the schema batch
default_settings(tbl) ==
    insert_or_ignore(
      insert_or_ignore(
        insert_or_ignore(
          insert_or_ignore(tbl, K_language, <<107, 111>>),
          K_gemini_api_key, <<>>),
        K_attachment_copy_mode, <<108, 105, 110, 107>>),
      K_attachment_storage_path, <<>>)

\* the keys rand::thread_rng may produce; FirstKey is the one of the first run
FirstKey == [i \in 1..KeyLen |-> 17]
Keys == { FirstKey, [i \in 1..KeyLen |-> 42] }

\* the nonces rand::thread_rng may produce
Nonces == { [i \in 1..NonceLen |-> n] : n \in {3, 200} }

\* init_encryption_key, lines 19-32: the stored key when it decodes to 32 bytes
stored_key(tbl) ==
    IF K_encryption_key \notin DOMAIN tbl THEN Err
    ELSE LET key_bytes == BASE64_decode(tbl[K_encryption_key]) IN
         IF key_bytes.ok /\ Len(key_bytes.value) = KeyLen
         THEN Ok(key_bytes.value) ELSE Err

\* db::save_setting
db_save_setting(tbl, key, value) == insert_or_replace(tbl, key, value)

\* db::get_setting
db_get_setting(tbl, key) == IF key \in DOMAIN tbl THEN tbl[key] ELSE <<>>

\* init_db on the database file as it is: schema batch, init_encryption_key with
\* a fresh key `fresh` in case none is stored, ENCRYPTION_KEY.set; `stored`
\* tells whether the INSERT of a fresh key succeeded (its error is dropped)
init_db(fresh, stored, o) ==
    LET tbl == default_settings(settings)
        existing_key == stored_key(tbl)
    IN  /\ ENCRYPTION_KEY' = IF existing_key.ok THEN existing_key.value ELSE fresh
        /\ settings' = IF existing_key.ok \/ ~stored THEN tbl
                       ELSE insert_or_replace(tbl, K_encryption_key,
                                              BASE64_encode(fresh))
        /\ obs' = o

\* the process exits and is started again on the same database file
restart(fresh, stored) ==
    /\ vault_commands < MaxVaultCommands
    /\ vault_commands' = vault_commands + 1
    /\ init_db(fresh, stored, [op |-> "restart"])
    /\ UNCHANGED <<ai_vars, scan_vars, memo_vars, secret_keys, secret_seq, sk_written>>

\* lib.rs save_setting -> db::save_setting
save_setting(key, value) ==
    /\ vault_commands < MaxVaultCommands
    /\ vault_commands' = vault_commands + 1
    /\ settings' = db_save_setting(settings, key, value)
    /\ obs' = [op |-> "save_setting", key |-> key]
    /\ UNCHANGED <<ai_vars, scan_vars, memo_vars, ENCRYPTION_KEY, secret_keys, secret_seq, sk_written>>

\* db::save_secret_key
save_secret_key(key, nonce_bytes) ==
    /\ vault_commands < MaxVaultCommands
    /\ vault_commands' = vault_commands + 1
    /\ LET encrypted_value == encrypt_value(ENCRYPTION_KEY, nonce_bytes, key.key_value)
           id == secret_seq + 1
       IN  /\ secret_keys' = insert_row(secret_keys, id,
                                        [key_value |-> encrypted_value,
                                         provider |-> key.provider,
                                         key_type |-> key.key_type])
           /\ secret_seq' = id
           /\ sk_written' = insert_row(sk_written, id,
                                       [key_value |-> key.key_value,
                                        key |-> ENCRYPTION_KEY,
                                        by |-> "save_secret_key"])
           /\ obs' = [op |-> "save_secret_key", id |-> id]
    /\ UNCHANGED <<ai_vars, scan_vars, memo_vars, settings, ENCRYPTION_KEY>>

\* db::update_secret_key
update_secret_key(id, key, nonce_bytes) ==
    /\ vault_commands < MaxVaultCommands
    /\ vault_commands' = vault_commands + 1
    /\ LET encrypted_value == encrypt_value(ENCRYPTION_KEY, nonce_bytes, key.key_value)
       IN  /\ secret_keys' = [x \in DOMAIN secret_keys |->
                                IF x \in where_id(secret_keys, id)
                                THEN [key_value |-> encrypted_value,
                                      provider |-> key.provider,
                                      key_type |-> key.key_type]
                                ELSE secret_keys[x]]
           /\ sk_written' = [x \in DOMAIN sk_written |->
                                IF x \in where_id(secret_keys, id)
                                THEN [key_value |-> key.key_value,
                                      key |-> ENCRYPTION_KEY,
                                      by |-> "update_secret_key"]
                                ELSE sk_written[x]]
           /\ obs' = [op |-> "update_secret_key", id |-> id]
    /\ UNCHANGED <<ai_vars, scan_vars, memo_vars, settings, ENCRYPTION_KEY, secret_seq>>

\* db::delete_secret_key
delete_secret_key(id) ==
    /\ vault_commands < MaxVaultCommands
    /\ vault_commands' = vault_commands + 1
    /\ secret_keys' = delete_rows(secret_keys, where_id(secret_keys, id))
    /\ sk_written' = delete_rows(sk_written, where_id(secret_keys, id))
    /\ obs' = [op |-> "delete_secret_key", id |-> id,
               deleted |-> where_id(secret_keys, id)]
    /\ UNCHANGED <<ai_vars, scan_vars, memo_vars, settings, ENCRYPTION_KEY, secret_seq>>

\* the query_map closure of the three readers: one returned SecretKey
read_row(id) ==
    LET encrypted_value == secret_keys[id].key_value
        decrypted_value == unwrap_or(decrypt_value(ENCRYPTION_KEY, encrypted_value),
                                     encrypted_value)
    IN  [id |-> id, key_value |-> decrypted_value,
         provider |-> secret_keys[id].provider, key_type |-> secret_keys[id].key_type]

\* what a reader returned: Ok(keys), one SecretKey per selected row
ReadEffect(name, arg, ids) ==
    [op |-> name, arg |-> arg, ok |-> TRUE, rows |-> {read_row(id) : id \in ids}]

\* db::get_all_secret_keys
get_all_secret_keys ==
    /\ obs' = ReadEffect("get_all_secret_keys", "", DOMAIN secret_keys)
    /\ UNCHANGED <<ai_vars, scan_vars, memo_vars, vault_vars>>

\* db::get_secret_keys_by_provider
get_secret_keys_by_provider(provider) ==
    /\ obs' = ReadEffect("get_secret_keys_by_provider", provider,
                         {id \in DOMAIN secret_keys : secret_keys[id].provider = provider})
    /\ UNCHANGED <<ai_vars, scan_vars, memo_vars, vault_vars>>

\* db::get_secret_keys_by_type
get_secret_keys_by_type(key_type) ==
    /\ obs' = ReadEffect("get_secret_keys_by_type", key_type,
                         {id \in DOMAIN secret_keys : secret_keys[id].key_type = key_type})
    /\ UNCHANGED <<ai_vars, scan_vars, memo_vars, vault_vars>>
(***************************************************************************)
(* The memo store: fresh state and commands                                *)
(***************************************************************************)
MemoFresh ==
    /\ foreign_keys \in BOOLEAN
    /\ memos = EmptyTable
    /\ memo_seq = 0
    /\ schedules = EmptyTable
    /\ todos = EmptyTable
    /\ transactions = EmptyTable
    /\ child_seq = [schedules |-> 0, todos |-> 0, transactions |-> 0]
    /\ im_pc = "idle"
    /\ im_content = <<>>
    /\ existing_memos = EmptyTable
    /\ im_left = 0
    /\ im_item = None
    /\ im_memo_id = NULL
    /\ im_pending = NoPending
    /\ im_result = "none"
    /\ commands = 0
    /\ items_returned = 0

MemoNext ==
    \/ \E content \in Contents(commands + 1) : input_memo_start(content)
    \/ \E n \in 0..(MaxItems - items_returned) : input_memo_analyzed(n)
    \/ input_memo_analysis_failed
    \/ \E analysis \in AnalysisItems : input_memo_item(analysis)
    \/ input_memo_save_schedule
    \/ input_memo_save_todo
    \/ input_memo_save_transaction
    \/ input_memo_save_failed
    \/ input_memo_item_done
    \/ input_memo_return
    \/ \E id \in DOMAIN memos \cup {memo_seq + 1} : delete_memo(id)
    \/ delete_all_memos
    \/ \E id \in {1, 2}, content \in {None, Some(<<"x">>)} :
          update_memo(id, <<"E">>, <<"e">>, <<"k">>, <<"w">>, content)




(***************************************************************************)
(* lib.rs scan_for_consulting / cancel_scan and                            *)
(* ai.rs scan_directory_with_details_cancellable                           *)
(***************************************************************************)
Scans == 1..MaxScans

MaxDepth == 10

Root == "/r"

\* a second tree: /c holds the hidden directory .d, the file x and the
\* symbolic link l to /c itself, so that /c/l, /c/l/l, .. are all /c
Cycle == "/c"

RECURSIVE Through(_)
Through(links) == IF links = 0 THEN Cycle ELSE Through(links - 1) \o "/l"

CyclePaths == {Through(links) : links \in 0..(MaxDepth + 2)}

\* the directory tree on disk: directory path -> its entries in read_dir order
Tree ==
    [dir \in {"/r", "/r/a"} \cup CyclePaths |->
       IF dir = "/r"
       THEN << [path |-> "/r/.h", name |-> <<".", "h">>, kind |-> "file", size |-> 1],
               [path |-> "/r/a", name |-> <<"a">>, kind |-> "dir", size |-> 0],
               [path |-> "/r/f", name |-> <<"f">>, kind |-> "file", size |-> 2] >>
       ELSE IF dir = "/r/a"
       THEN << [path |-> "/r/a/g", name |-> <<"g">>, kind |-> "file", size |-> 3] >>
       ELSE << [path |-> dir \o "/.d", name |-> <<".", "d">>, kind |-> "dir", size |-> 0],
               [path |-> dir \o "/l", name |-> <<"l">>, kind |-> "dir", size |-> 0],
               [path |-> dir \o "/x", name |-> <<"x">>, kind |-> "file", size |-> 1] >>]

shows_hidden(name) == FALSE

\* name.to_string_lossy().starts_with('.')
starts_with_dot(name) == name # <<>> /\ name[1] = "."

\* the closure passed as is_cancelled
is_cancelled == SCAN_CANCELLED

Notice == [kind |-> "interrupted"]

\* the first recommendation: the overall analysis line
Overall(files, folders) == [kind |-> "overall", files |-> Len(files), folders |-> folders]

with_notice_last(was_cancelled, recommendations) ==
    IF was_cancelled THEN recommendations \o <<Notice>> ELSE recommendations

\* if cancelled { recommendations.insert(0, ...) }
with_notice(was_cancelled, recommendations) ==
    IF was_cancelled THEN <<Notice>> \o recommendations ELSE recommendations

ScanIdle ==
    /\ SCAN_CANCELLED = FALSE
    /\ scan_pc = [p \in Scans |-> "idle"]
    /\ stack = [p \in Scans |-> <<>>]
    /\ cancelled = [p \in Scans |-> FALSE]
    /\ entries = [p \in Scans |-> <<>>]
    /\ dir_depth = [p \in Scans |-> 0]
    /\ all_files = [p \in Scans |-> <<>>]
    /\ total_folders = [p \in Scans |-> 0]
    /\ on_file = [p \in Scans |-> <<>>]
    /\ read_dirs = [p \in Scans |-> <<>>]
    /\ popped = [p \in Scans |-> <<>>]
    /\ set_during = [p \in Scans |-> FALSE]
    /\ scan_result = [p \in Scans |-> [ok |-> FALSE, returned |-> FALSE]]

Running(p) == scan_pc[p] \in {"while", "for", "result"}

\* cancel_scan: SCAN_CANCELLED.store(true)
cancel_scan ==
    /\ SCAN_CANCELLED' = TRUE
    /\ set_during' = [p \in Scans |->
                        IF Running(p) /\ ~SCAN_CANCELLED THEN TRUE ELSE set_during[p]]
    /\ UNCHANGED <<ai_vars, memo_vars, vault_vars, obs, scan_pc, stack, cancelled, entries,
                   dir_depth, all_files, total_folders, on_file, read_dirs,
                   popped,
                   scan_result>>

left_as_found(flag) == flag

\* SCAN_CANCELLED.store(false, Ordering::SeqCst) at the start of a scan
store_false(flag) == FALSE

\* scan_for_consulting up to the call of the scan: the flag is cleared, then
\* the scan starts with the root on the stack, or returns Err for a missing path
scan_for_consulting(p, path) ==
    /\ scan_pc[p] = "idle"
    /\ SCAN_CANCELLED' = store_false(SCAN_CANCELLED)
    /\ set_during' = [q \in Scans |-> FALSE]
    /\ IF path \notin DOMAIN Tree
       THEN /\ scan_pc' = [scan_pc EXCEPT ![p] = "done"]
            /\ scan_result' = [scan_result EXCEPT ![p] = [ok |-> FALSE, returned |-> TRUE]]
            /\ UNCHANGED stack
       ELSE /\ scan_pc' = [scan_pc EXCEPT ![p] = "while"]
            /\ stack' = [stack EXCEPT ![p] = << <<path, 0>> >>]
            /\ UNCHANGED scan_result
    /\ UNCHANGED <<ai_vars, memo_vars, vault_vars, obs, cancelled, entries, dir_depth,
                   all_files, total_folders, on_file, read_dirs, popped>>

\* one turn of `while let Some((dir, depth)) = stack.pop()` up to read_dir
scan_while(p) ==
    /\ scan_pc[p] = "while"
    /\ IF stack[p] = <<>>
       THEN /\ scan_pc' = [scan_pc EXCEPT ![p] = "result"]
            /\ UNCHANGED <<stack, cancelled, entries, dir_depth, read_dirs, popped>>
       ELSE LET dir == stack[p][Len(stack[p])][1]
                depth == stack[p][Len(stack[p])][2]
            IN  /\ stack' = [stack EXCEPT ![p] = SubSeq(stack[p], 1, Len(stack[p]) - 1)]
                /\ popped' = [popped EXCEPT ![p] = Append(@, <<dir, depth>>)]
                /\ IF is_cancelled
                   THEN /\ cancelled' = [cancelled EXCEPT ![p] = TRUE]
                        /\ scan_pc' = [scan_pc EXCEPT ![p] = "result"]
                        /\ UNCHANGED <<entries, dir_depth, read_dirs>>
                   ELSE IF depth > MaxDepth \/ dir \notin DOMAIN Tree
                   THEN UNCHANGED <<scan_pc, cancelled, entries, dir_depth, read_dirs>>
                   ELSE /\ read_dirs' = [read_dirs EXCEPT ![p] = Append(read_dirs[p], dir)]
                        /\ entries' = [entries EXCEPT ![p] = Tree[dir]]
                        /\ dir_depth' = [dir_depth EXCEPT ![p] = depth]
                        /\ scan_pc' = [scan_pc EXCEPT ![p] = "for"]
                        /\ UNCHANGED cancelled
    /\ UNCHANGED <<ai_vars, memo_vars, vault_vars, obs, SCAN_CANCELLED, all_files,
                   total_folders, on_file, set_during, scan_result>>

\* one turn of `for entry in entries.flatten()`
scan_for(p) ==
    /\ scan_pc[p] = "for"
    /\ IF entries[p] = <<>>
       THEN /\ scan_pc' = [scan_pc EXCEPT ![p] = "while"]
            /\ UNCHANGED <<stack, cancelled, entries, all_files, total_folders, on_file>>
       ELSE IF is_cancelled
       THEN /\ cancelled' = [cancelled EXCEPT ![p] = TRUE]
            /\ entries' = [entries EXCEPT ![p] = <<>>]
            /\ scan_pc' = [scan_pc EXCEPT ![p] = "while"]
            /\ UNCHANGED <<stack, all_files, total_folders, on_file>>
       ELSE LET entry == Head(entries[p]) IN
            /\ entries' = [entries EXCEPT ![p] = Tail(entries[p])]
            /\ UNCHANGED <<scan_pc, cancelled>>
            /\ IF starts_with_dot(entry.name)
               THEN UNCHANGED <<stack, all_files, total_folders, on_file>>
               ELSE IF entry.kind = "dir"
               THEN /\ total_folders' = [total_folders EXCEPT ![p] = @ + 1]
                    /\ on_file' = [on_file EXCEPT ![p] =
                                     Append(@, [path |-> entry.path, size |-> 0,
                                                is_folder |-> TRUE])]
                    /\ stack' = [stack EXCEPT ![p] =
                                   Append(@, <<entry.path, dir_depth[p] + 1>>)]
                    /\ UNCHANGED all_files
               ELSE /\ on_file' = [on_file EXCEPT ![p] =
                                     Append(@, [path |-> entry.path, size |-> entry.size,
                                                is_folder |-> FALSE])]
                    /\ all_files' = [all_files EXCEPT ![p] = Append(@, entry.path)]
                    /\ UNCHANGED <<stack, total_folders>>
    /\ UNCHANGED <<ai_vars, memo_vars, vault_vars, obs, SCAN_CANCELLED, dir_depth,
                   read_dirs, popped,
                   set_during, scan_result>>

\* after the loop: the statistics, the recommendations and the Ok result
scan_return(p) ==
    /\ scan_pc[p] = "result"
    /\ scan_result' = [scan_result EXCEPT ![p] =
          [ok |-> TRUE, returned |-> TRUE,
           total_scanned |-> Len(all_files[p]),
           total_folders |-> total_folders[p],
           recommendations |->
              with_notice(cancelled[p], <<Overall(all_files[p], total_folders[p])>>)]]
    /\ scan_pc' = [scan_pc EXCEPT ![p] = "done"]
    /\ UNCHANGED <<ai_vars, memo_vars, vault_vars, obs, SCAN_CANCELLED, stack, cancelled,
                   entries, dir_depth, all_files, total_folders, on_file, read_dirs,
                   popped,
                   set_during>>


(***************************************************************************)
(* ai.rs: token prices and cost.  Prices are in thousandths of a dollar    *)
(* per million tokens; a cost is the fraction num / den of that unit.      *)
(***************************************************************************)
INPUT_PRICE_PER_M == 100
OUTPUT_PRICE_PER_M == 400

KnownModels ==
    {"gemini-2.0-flash-lite", "gemini-2.0-flash", "gemini-2.5-flash-lite",
     "gemini-2.5-flash", "gemini-2.5-pro", "gemini-3-flash-preview",
     "gemini-3-pro-preview"}

\* model names a caller may pass: the table's and two that are not in it
ModelNames == KnownModels \cup {"gemini-1.5-flash", ""}

get_model_price_swapped(model) == <<OUTPUT_PRICE_PER_M, INPUT_PRICE_PER_M>>

get_model_price(model) ==
    IF model = "gemini-2.0-flash-lite" THEN <<75, 300>>
    ELSE IF model = "gemini-2.0-flash" THEN <<100, 400>>
    ELSE IF model = "gemini-2.5-flash-lite" THEN <<100, 400>>
    ELSE IF model = "gemini-2.5-flash" THEN <<300, 2500>>
    ELSE IF model = "gemini-2.5-pro" THEN <<1250, 10000>>
    ELSE IF model = "gemini-3-flash-preview" THEN <<500, 3000>>
    ELSE IF model = "gemini-3-pro-preview" THEN <<2000, 12000>>
    ELSE <<INPUT_PRICE_PER_M, OUTPUT_PRICE_PER_M>>

\* x / 1_000_000.0
per_million(x) == [num |-> x, den |-> 1000000]

\* the sum of two amounts over the same denominator
plus(a, b) == [num |-> a.num + b.num, den |-> a.den]

calculate_cost(model, input_tokens, output_tokens) ==
    LET input_price == get_model_price(model)[1]
        output_price == get_model_price(model)[2]
    IN  plus(per_million(input_tokens * input_price),
             per_million(output_tokens * output_price))

\* `let cost = ...` as written in the research, dataset, extraction and agent
\* functions
inline_cost(model, input_tokens, output_tokens) ==
    LET input_price == get_model_price(model)[1]
        output_price == get_model_price(model)[2]
        cost == plus(per_million(input_tokens * input_price),
                     per_million(output_tokens * output_price))
    IN  cost

\* functions whose result carries calculate_cost(..)
CostCallers == {"ask_question", "analyze_multi_memo"}

\* functions that compute the cost inline
InlineCostSites ==
    {"plan_research", "select_pages_to_crawl", "extract_insights",
     "summarize_source", "compile_final_report", "analyze_dataset_data",
     "query_dataset_data", "extract_data_from_url", "decide_next_action"}

CostIdle == cost_obs = [op |-> "init"]

cost_by_call(fn, model, input_tokens, output_tokens) ==
    /\ cost_obs' = [op |-> fn, model |-> model, input_tokens |-> input_tokens,
                    output_tokens |-> output_tokens,
                    cost |-> calculate_cost(model, input_tokens, output_tokens)]
    /\ UNCHANGED <<memo_vars, vault_vars, scan_vars, lock_vars, batch_vars, key_vars, agent_vars, research_vars, ext_vars, obs>>

cost_inline(fn, model, input_tokens, output_tokens) ==
    /\ cost_obs' = [op |-> fn, model |-> model, input_tokens |-> input_tokens,
                    output_tokens |-> output_tokens,
                    cost |-> inline_cost(model, input_tokens, output_tokens)]
    /\ UNCHANGED <<memo_vars, vault_vars, scan_vars, lock_vars, batch_vars, key_vars, agent_vars, research_vars, ext_vars, obs>>

(***************************************************************************)
(* db/mod.rs: the global mutex around the connection.  Every db function   *)
(* is `let conn = get_db().lock();`, its statements, and the drop of the   *)
(* guard when it returns.                                                  *)
(***************************************************************************)
Threads == 1..MaxThreads

\* db functions by shape: the number of statements run under the guard, and
\* the db function called before the guard is taken, if any
DbFunctions ==
    [fn \in {"save_memo", "get_attachments_by_memo",
             "get_and_delete_attachments_by_memo"} |->
       IF fn = "save_memo" THEN [statements |-> 1, calls_first |-> None]
       ELSE IF fn = "get_attachments_by_memo"
       THEN [statements |-> 2, calls_first |-> None]
       ELSE [statements |-> 1, calls_first |-> Some("get_attachments_by_memo")]]

lock_without_waiting(holder) == TRUE

\* parking_lot::Mutex::lock returns only when no thread holds the mutex
lock(holder) == holder = 0

LockIdle ==
    /\ DB = 0
    /\ db_fn = [t \in Threads |-> "none"]
    /\ db_outer = [t \in Threads |-> None]
    /\ db_pc = [t \in Threads |-> "idle"]
    /\ db_left = [t \in Threads |-> 0]
    /\ db_result = [t \in Threads |-> "none"]

\* a command thread calls db function fn
db_call(t, fn) ==
    /\ db_pc[t] = "idle"
    /\ IF DbFunctions[fn].calls_first = None
       THEN /\ db_fn' = [db_fn EXCEPT ![t] = fn]
            /\ db_outer' = [db_outer EXCEPT ![t] = None]
       ELSE /\ db_fn' = [db_fn EXCEPT ![t] = DbFunctions[fn].calls_first[1]]
            /\ db_outer' = [db_outer EXCEPT ![t] = Some(fn)]
    /\ db_pc' = [db_pc EXCEPT ![t] = "lock"]
    /\ db_result' = [db_result EXCEPT ![t] = "running"]
    /\ UNCHANGED <<memo_vars, vault_vars, scan_vars, cost_vars, batch_vars, key_vars, agent_vars, research_vars, ext_vars, obs, DB, db_left>>

\* let conn = get_db().lock();
db_lock(t) ==
    /\ db_pc[t] = "lock"
    /\ lock(DB)
    /\ DB' = t
    /\ db_pc' = [db_pc EXCEPT ![t] = "statements"]
    /\ db_left' = [db_left EXCEPT ![t] = DbFunctions[db_fn[t]].statements]
    /\ UNCHANGED <<memo_vars, vault_vars, scan_vars, cost_vars, batch_vars, key_vars, agent_vars, research_vars, ext_vars, obs, db_fn, db_outer,
                   db_result>>

\* one conn.execute / prepare / query_map; on Err the `?` leaves the function
db_statement(t, ok) ==
    /\ db_pc[t] = "statements"
    /\ db_left[t] > 0
    /\ db_left' = [db_left EXCEPT ![t] = IF ok THEN @ - 1 ELSE 0]
    /\ db_result' = [db_result EXCEPT ![t] = IF ok THEN @ ELSE "Err"]
    /\ UNCHANGED <<memo_vars, vault_vars, scan_vars, cost_vars, batch_vars, key_vars, agent_vars, research_vars, ext_vars, obs, DB, db_fn,
                   db_outer, db_pc>>

\* the function returns: the guard `conn` is dropped; a caller that is itself
\* a db function goes on to take the guard, or returns the error
db_return(t) ==
    /\ db_pc[t] = "statements"
    /\ db_left[t] = 0
    /\ DB' = 0
    /\ IF db_outer[t] # None /\ db_result[t] # "Err"
       THEN /\ db_fn' = [db_fn EXCEPT ![t] = db_outer[t][1]]
            /\ db_outer' = [db_outer EXCEPT ![t] = None]
            /\ db_pc' = [db_pc EXCEPT ![t] = "lock"]
            /\ UNCHANGED db_result
       ELSE /\ db_pc' = [db_pc EXCEPT ![t] = "idle"]
            /\ db_result' = [db_result EXCEPT ![t] =
                                IF db_result[t] = "Err" THEN "Err" ELSE "Ok"]
            /\ UNCHANGED <<db_fn, db_outer>>
    /\ UNCHANGED <<memo_vars, vault_vars, scan_vars, cost_vars, batch_vars, key_vars, agent_vars, research_vars, ext_vars, obs, db_left>>

(***************************************************************************)
(* ai.rs: extract_data_batch                                               *)
(***************************************************************************)
\* Err(e) of a Result<_, String>
Failed(e) == [ok |-> FALSE, error |-> e]

Urls == {"https://a", "https://b"}

UrlLists == UNION {[1..n -> Urls] : n \in 0..MaxUrls}

ExtractModel == "gemini-2.0-flash"

\* what extract_data_from_url can return for a url: the page fetch fails, the
\* page is empty, or an ExtractResult with the parsed JSON or the raw text
ExtractOutcomes(url) ==
    {Failed(e) : e \in {"fetch failed", "empty page"}}
    \cup {Ok([url |-> url, data |-> [key |-> k, value |-> "text"],
              input_tokens |-> n, output_tokens |-> n,
              cost_usd |-> inline_cost(ExtractModel, n, n)]) :
            k \in {"json", "raw_text"}, n \in {0, 1}}

skip_failed_url(results, url, e) == results

\* the Err arm of the match in extract_data_batch
push_error_result(results, url, e) ==
    Append(results, [url |-> url, data |-> [key |-> "error", value |-> e],
                     input_tokens |-> 0, output_tokens |-> 0,
                     cost_usd |-> per_million(0)])

BatchIdle ==
    /\ eb_pc = "idle"
    /\ eb_urls = <<>>
    /\ eb_results = <<>>
    /\ eb_outcomes = <<>>
    /\ eb_return = None

extract_data_batch(urls) ==
    /\ eb_pc \in {"idle", "returned"}
    /\ eb_pc' = "for"
    /\ eb_urls' = urls
    /\ eb_results' = <<>>
    /\ eb_outcomes' = <<>>
    /\ eb_return' = None
    /\ UNCHANGED <<memo_vars, vault_vars, scan_vars, cost_vars, lock_vars, key_vars, agent_vars, research_vars, ext_vars, obs>>

\* one iteration of `for url in urls`
extract_data_batch_for(outcome) ==
    /\ eb_pc = "for"
    /\ Len(eb_outcomes) < Len(eb_urls)
    /\ LET url == eb_urls[Len(eb_outcomes) + 1] IN
         /\ outcome \in ExtractOutcomes(url)
         /\ eb_results' = IF outcome.ok
                            THEN Append(eb_results, outcome.value)
                            ELSE push_error_result(eb_results, url, outcome.error)
    /\ eb_outcomes' = Append(eb_outcomes, outcome)
    /\ UNCHANGED <<memo_vars, vault_vars, scan_vars, cost_vars, lock_vars, key_vars, agent_vars, research_vars, ext_vars, obs,
                   eb_pc, eb_urls, eb_return>>

\* Ok(results)
extract_data_batch_return ==
    /\ eb_pc = "for"
    /\ Len(eb_outcomes) = Len(eb_urls)
    /\ eb_pc' = "returned"
    /\ eb_return' = Some(Ok(eb_results))
    /\ UNCHANGED <<memo_vars, vault_vars, scan_vars, cost_vars, lock_vars, key_vars, agent_vars, research_vars, ext_vars, obs,
                   eb_urls, eb_results, eb_outcomes>>

(***************************************************************************)
(* lib.rs: the API key check at the head of every AI command               *)
(***************************************************************************)
\* the commands that call the generative-AI service, and whether they write
\* rows (log_api_usage and the command's own tables) after the remote call
AiCommands ==
    [cmd \in {"input_memo", "search_memo", "reanalyze_memo",
              "analyze_files_for_organization", "run_research",
              "analyze_dataset", "query_dataset", "extract_from_url",
              "extract_from_urls", "run_browser_agent",
              "get_ai_file_consulting", "get_folder_rename_suggestions"} |->
       [writes_rows |-> cmd \notin {"analyze_files_for_organization",
                                    "get_ai_file_consulting",
                                    "get_folder_rename_suggestions"}]]

\* db::get_setting: query_row(..).unwrap_or_default(), so a query that finds
\* no row or fails yields the empty string
get_setting(tbl, key, row_read) ==
    IF row_read THEN db_get_setting(tbl, key) ELSE <<>>

key_never_missing(api_key) == FALSE

\* api_key.is_empty()
is_empty(api_key) == api_key = <<>>

KeyIdle ==
    /\ remote_calls = 0
    /\ api_usage = 0
    /\ cmd_obs = [cmd |-> "none"]

\* one AI command from its first line to its return: the key check, then
\* (key present) at least one remote call and, on success, the rows it writes
ai_command(cmd, row_read, remote_ok, rows) ==
    LET api_key == get_setting(settings, K_gemini_api_key, row_read) IN
    /\ IF is_empty(api_key)
       THEN /\ remote_ok = FALSE /\ rows = 0
            /\ UNCHANGED <<remote_calls, api_usage>>
            /\ cmd_obs' = [cmd |-> cmd, api_key |-> api_key, result |-> "Err",
                           calls_before |-> remote_calls, rows_before |-> api_usage]
       ELSE /\ remote_calls < MaxRemoteCalls
            /\ remote_calls' = remote_calls + 1
            /\ rows \in (IF remote_ok /\ AiCommands[cmd].writes_rows
                         THEN {0, 1} ELSE {0})
            /\ api_usage' = api_usage + rows
            /\ cmd_obs' = [cmd |-> cmd, api_key |-> api_key,
                           result |-> IF remote_ok THEN "Ok" ELSE "Err",
                           calls_before |-> remote_calls, rows_before |-> api_usage]
    /\ UNCHANGED <<memo_vars, vault_vars, scan_vars, cost_vars, lock_vars, batch_vars,
                   agent_vars, research_vars, ext_vars, obs>>

(***************************************************************************)
(* ai.rs: run_agent, entered from lib.rs run_browser_agent                 *)
(***************************************************************************)
AGENT_STEP_LIMIT == 15

DEFAULT_MAX_STEPS == 10

min(a, b) == IF a < b THEN a ELSE b

AgentModel == "gemini-2.0-flash"

\* str::to_lowercase on the action_type strings the model is seen to return
to_lowercase(str) ==
    IF str = "Done" THEN "done" ELSE IF str = "Click" THEN "click" ELSE str

action_type_or_wait(str) ==
    IF to_lowercase(str) = "click" THEN "Click"
    ELSE IF to_lowercase(str) = "done" THEN "Done" ELSE "Wait"

\* the match on action_resp.action_type.to_lowercase() in decide_next_action
action_type_of(str) ==
    LET lower == to_lowercase(str) IN
    IF lower = "navigate" THEN "Navigate"
    ELSE IF lower = "click" THEN "Click"
    ELSE IF lower = "type" THEN "Type"
    ELSE IF lower = "scroll" THEN "Scroll"
    ELSE IF lower = "wait" THEN "Wait"
    ELSE IF lower = "extract" THEN "Extract"
    ELSE "Done"

\* what decide_next_action can return: the request or the JSON parse fails, or
\* an action with the token counts and the cost of the call
DecideOutcomes ==
    {Failed("decide")}
    \cup {Ok([action_type |-> a.str, value |-> a.value,
              input_tokens |-> a.n, output_tokens |-> a.n + 1,
              cost |-> inline_cost(AgentModel, a.n, a.n + 1)]) :
            a \in {[str |-> "Click", value |-> None, n |-> 1],
                   [str |-> "Done", value |-> Some("v"), n |-> 2],
                   [str |-> "hover", value |-> None, n |-> 1]}}

\* the recorded steps whose action could not be executed
FailedActions(recorded) ==
    Cardinality({i \in 1..Len(recorded) : recorded[i].result = "action failed"})

no_limit(requested) == requested

\* let max_steps = max_steps.min(15);
step_limit(requested) == min(requested, AGENT_STEP_LIMIT)

AgentIdle ==
    /\ ag_pc = "idle"
    /\ ag_input = 0
    /\ max_steps = 0
    /\ step_num = 0
    /\ steps = <<>>
    /\ ag_totals = [input_tokens |-> 0, output_tokens |-> 0, cost |-> per_million(0)]
    /\ ag_progress = <<>>
    /\ ag_decided = <<>>
    /\ ag_result = None
    /\ page = "none"

\* let _ = page.close().await
close(p) == "closed"

AgentResult(success, final_data) ==
    Some(Ok([success |-> success, steps |-> steps', final_data |-> final_data,
             total_input_tokens |-> ag_totals'.input_tokens,
             total_output_tokens |-> ag_totals'.output_tokens,
             total_cost_usd |-> ag_totals'.cost]))

\* run_browser_agent up to the loop of run_agent: max_steps.unwrap_or(10), the
\* browser and the page (either may fail), the cap
run_agent(requested, browser_ok) ==
    /\ ag_pc = "idle"
    /\ ag_input' = IF requested = None THEN DEFAULT_MAX_STEPS ELSE requested[1]
    /\ IF browser_ok
       THEN /\ ag_pc' = "for"
            /\ max_steps' = step_limit(ag_input')
            /\ step_num' = 1
            /\ page' = "open"
            /\ UNCHANGED ag_result
       ELSE /\ ag_pc' = "returned"
            /\ ag_result' = Some(Failed("browser"))
            /\ UNCHANGED <<max_steps, step_num, page>>
    /\ UNCHANGED <<memo_vars, vault_vars, scan_vars, cost_vars, lock_vars, batch_vars,
                   key_vars, research_vars, ext_vars, obs, steps, ag_totals, ag_progress, ag_decided>>

\* one iteration of `for step_num in 1..=max_steps`
run_agent_for(decided, executed) ==
    /\ ag_pc = "for"
    /\ step_num <= max_steps
    /\ executed \/ FailedActions(steps) < MaxFailedActions
    /\ ag_decided' = Append(ag_decided, decided)
    /\ IF ~decided.ok
       THEN /\ ag_pc' = "returned"
            /\ ag_result' = Some(Failed(decided.error))
            /\ UNCHANGED <<step_num, steps, ag_totals, ag_progress, page>>
       ELSE LET action == [action_type |-> action_type_of(decided.value.action_type),
                           value |-> decided.value.value]
                step == [step_number |-> step_num, action |-> action,
                         result |-> IF executed THEN "ok" ELSE "action failed"]
            IN  /\ ag_totals' =
                      [input_tokens |-> ag_totals.input_tokens
                                          + decided.value.input_tokens,
                       output_tokens |-> ag_totals.output_tokens
                                           + decided.value.output_tokens,
                       cost |-> plus(ag_totals.cost, decided.value.cost)]
                /\ ag_progress' = Append(ag_progress, step)
                /\ steps' = Append(steps, step)
                /\ IF action.action_type = "Done"
                   THEN /\ ag_pc' = "returned"
                        /\ page' = close(page)
                        /\ ag_result' =
                              AgentResult(TRUE,
                                          IF action.value = None THEN None
                                          ELSE Some([key |-> "result",
                                                     value |-> action.value[1]]))
                        /\ UNCHANGED step_num
                   ELSE /\ step_num' = step_num + 1
                        /\ UNCHANGED <<ag_pc, ag_result, page>>
    /\ UNCHANGED <<memo_vars, vault_vars, scan_vars, cost_vars, lock_vars, batch_vars,
                   key_vars, research_vars, ext_vars, obs, ag_input, max_steps>>

\* the loop ran out: success false, the max-steps error as final_data
run_agent_exceeded ==
    /\ ag_pc = "for"
    /\ step_num > max_steps
    /\ ag_pc' = "returned"
    /\ page' = close(page)
    /\ UNCHANGED <<steps, ag_totals>>
    /\ ag_result' = AgentResult(FALSE, Some([key |-> "error",
                                             value |-> "max steps exceeded"]))
    /\ UNCHANGED <<memo_vars, vault_vars, scan_vars, cost_vars, lock_vars, batch_vars,
                   key_vars, research_vars, ext_vars, obs, ag_input, max_steps, step_num, ag_progress,
                   ag_decided>>

(***************************************************************************)
(* lib.rs: run_research                                                    *)
(***************************************************************************)
TOTAL_STEPS == 7

\* the tasks vector of lines 978-986
initial_tasks == [i \in 1..TOTAL_STEPS |-> "pending"]

set_status_only(t, step, status) ==
    [i \in 1..TOTAL_STEPS |-> IF i = step THEN status ELSE "pending"]

\* tasks[step - 1].status = status
set_status(t, step, status) == [t EXCEPT ![step] = status]

\* the emit_progress closure: one 'research-progress' event with a copy of
\* the task list
emit_progress(evs, step, t, status) ==
    Append(evs, [step |-> step, total_steps |-> TOTAL_STEPS, status |-> status,
                 tasks |-> t])

\* emit_progress called n times with the same arguments but the description
emit_progress_times(evs, n, step, t, status) ==
    evs \o [i \in 1..n |-> [step |-> step, total_steps |-> TOTAL_STEPS,
                            status |-> status, tasks |-> t]]

\* retain(|item| seen_urls.insert(item.link.clone())): the first occurrence of
\* every link, in order
retain_first(links) ==
    LET keep == {i \in 1..Len(links) : \A j \in 1..(i - 1) : links[j] # links[i]}
        pos(k) == CHOOSE i \in keep : Cardinality({j \in keep : j <= i}) = k
    IN  [k \in 1..Cardinality(keep) |-> links[pos(k)]]

contains(seq, x) == \E i \in 1..Len(seq) : seq[i] = x

\* what ai::search_google and ai::search_naver return for one query
GoogleOutcomes == {Failed("google"), Ok(<<>>), Ok(<<"u1">>)}
NaverOutcomes == {Failed("naver"), Ok(<<"u1", "u2">>)}

\* the url lists ai::select_pages_to_crawl may return; the model may name a
\* url that no search returned
SelectedLists == UNION {[1..n -> {"u1", "u3"}] : n \in 0..MaxPages}

\* what ai::fetch_page_content gives for one url
FetchOutcomes == {"content", "empty", "error"}

propagate_item_error(result, e) == Some(Failed(e))

\* `match .. Err(e) => errors.push(..)` and `if let Ok(..) = ..`: the failure
\* of one item leaves the result of the run open
skip_item_error(result, e) == result

ResearchIdle ==
    /\ rs_pc = "idle"
    /\ rs_engines = [has_naver |-> FALSE, has_google |-> FALSE]
    /\ tasks = initial_tasks
    /\ events = <<>>
    /\ search_queries = 0
    /\ rs_idx = 0
    /\ all_search_results = <<>>
    /\ selected_urls = <<>>
    /\ crawled_contents = <<>>
    /\ all_insights = 0
    /\ source_summaries = <<>>
    /\ rs_skipped = {}
    /\ rs_result = None

ResearchOthers ==
    UNCHANGED <<memo_vars, vault_vars, scan_vars, cost_vars, lock_vars, batch_vars,
                key_vars, agent_vars, ext_vars, obs>>

\* an item of a loop failed: the run ends only if the error is propagated
ItemFailed(loops, e, next_pc) ==
    /\ rs_skipped' = rs_skipped \cup loops
    /\ rs_result' = skip_item_error(rs_result, e)
    /\ rs_pc' = IF rs_result' = None THEN next_pc ELSE "returned"

ItemOk(next_pc) ==
    /\ rs_pc' = next_pc
    /\ UNCHANGED <<rs_skipped, rs_result>>

\* lines 945-1005: the key checks, the task list, task 1 in progress
run_research(gemini_key, has_naver, has_google) ==
    /\ rs_pc = "idle"
    /\ rs_engines' = [has_naver |-> has_naver, has_google |-> has_google]
    /\ IF ~gemini_key
       THEN /\ rs_result' = Some(Failed("gemini key"))
            /\ rs_pc' = "returned"
            /\ UNCHANGED <<tasks, events>>
       ELSE IF ~has_naver /\ ~has_google
       THEN /\ rs_result' = Some(Failed("search key"))
            /\ rs_pc' = "returned"
            /\ UNCHANGED <<tasks, events>>
       ELSE /\ tasks' = set_status(initial_tasks, 1, "in_progress")
            /\ events' = emit_progress(events, 1, tasks', "in_progress")
            /\ rs_pc' = "plan"
            /\ UNCHANGED rs_result
    /\ UNCHANGED <<search_queries, rs_idx, all_search_results, selected_urls,
                   crawled_contents, all_insights, source_summaries, rs_skipped>>
    /\ ResearchOthers

\* lines 1007-1029: ai::plan_research, task 1 completed, task 2 in progress
research_plan(planned) ==
    /\ rs_pc = "plan"
    /\ IF ~planned.ok
       THEN /\ rs_result' = Some(Failed("plan"))
            /\ rs_pc' = "returned"
            /\ UNCHANGED <<tasks, events, search_queries>>
       ELSE LET t1 == set_status(tasks, 1, "completed")
                e1 == emit_progress(events, 1, t1, "completed")
                t2 == set_status(t1, 2, "in_progress")
            IN  /\ tasks' = t2
                /\ events' = emit_progress(e1, 2, t2, "in_progress")
                /\ search_queries' = planned.value
                /\ rs_pc' = "search"
                /\ UNCHANGED rs_result
    /\ UNCHANGED <<rs_engines, rs_idx, all_search_results, selected_urls,
                   crawled_contents, all_insights, source_summaries, rs_skipped>>
    /\ ResearchOthers

\* lines 1031-1066: one query of the search loop, on the configured engines
research_search(google, naver) ==
    /\ rs_pc = "search"
    /\ rs_idx < search_queries
    /\ rs_engines.has_google \/ google = Ok(<<>>)
    /\ rs_engines.has_naver \/ naver = Ok(<<>>)
    /\ LET n == 1 + (IF rs_engines.has_google THEN 1 ELSE 0)
                  + (IF rs_engines.has_naver THEN 1 ELSE 0)
           from_google == IF google.ok THEN google.value ELSE <<>>
           from_naver == IF naver.ok THEN naver.value ELSE <<>>
       IN  /\ events' = emit_progress_times(events, n, 2, tasks, "in_progress")
           /\ all_search_results' = all_search_results \o from_google \o from_naver
    /\ rs_idx' = rs_idx + 1
    /\ IF ~google.ok \/ ~naver.ok
       THEN ItemFailed((IF google.ok THEN {} ELSE {"google"})
                         \cup (IF naver.ok THEN {} ELSE {"naver"}),
                       "search", "search")
       ELSE ItemOk("search")
    /\ UNCHANGED <<rs_engines, tasks, search_queries, selected_urls,
                   crawled_contents, all_insights, source_summaries>>
    /\ ResearchOthers

\* lines 1068-1099: the error notices, the de-duplication, task 2 completed,
\* the empty-result return, task 3 in progress
research_searched ==
    /\ rs_pc = "search"
    /\ rs_idx = search_queries
    /\ LET notices == Cardinality(rs_skipped \cap {"google", "naver"})
           e1 == emit_progress_times(events, notices, 2, tasks, "in_progress")
           t2 == set_status(tasks, 2, "completed")
           e2 == emit_progress(e1, 2, t2, "completed")
           t3 == set_status(t2, 3, "in_progress")
       IN  /\ all_search_results' = retain_first(all_search_results)
           /\ IF all_search_results' = <<>>
              THEN /\ tasks' = t2
                   /\ events' = e2
                   /\ rs_result' = Some(Failed("no results"))
                   /\ rs_pc' = "returned"
              ELSE /\ tasks' = t3
                   /\ events' = emit_progress(e2, 3, t3, "in_progress")
                   /\ rs_pc' = "select"
                   /\ UNCHANGED rs_result
    /\ UNCHANGED <<rs_engines, search_queries, rs_idx, selected_urls,
                   crawled_contents, all_insights, source_summaries, rs_skipped>>
    /\ ResearchOthers

\* lines 1101-1113: ai::select_pages_to_crawl, task 3 completed, task 4 in
\* progress
research_select(selected) ==
    /\ rs_pc = "select"
    /\ IF ~selected.ok
       THEN /\ rs_result' = Some(Failed("select"))
            /\ rs_pc' = "returned"
            /\ UNCHANGED <<tasks, events, selected_urls, rs_idx>>
       ELSE LET t3 == set_status(tasks, 3, "completed")
                e3 == emit_progress(events, 3, t3, "completed")
                t4 == set_status(t3, 4, "in_progress")
            IN  /\ tasks' = t4
                /\ events' = emit_progress(e3, 4, t4, "in_progress")
                /\ selected_urls' = selected.value
                /\ rs_idx' = 0
                /\ rs_pc' = "crawl"
                /\ UNCHANGED rs_result
    /\ UNCHANGED <<rs_engines, search_queries, all_search_results,
                   crawled_contents, all_insights, source_summaries, rs_skipped>>
    /\ ResearchOthers

\* lines 1115-1127: one url of the crawl loop
research_crawl(fetched) ==
    /\ rs_pc = "crawl"
    /\ rs_idx < Len(selected_urls)
    /\ events' = emit_progress(events, 4, tasks, "in_progress")
    /\ rs_idx' = rs_idx + 1
    /\ IF fetched = "content"
       THEN /\ crawled_contents' = Append(crawled_contents, selected_urls[rs_idx + 1])
            /\ ItemOk("crawl")
       ELSE /\ UNCHANGED crawled_contents
            /\ ItemFailed({"crawl"}, "crawl", "crawl")
    /\ UNCHANGED <<rs_engines, tasks, search_queries, all_search_results,
                   selected_urls, all_insights, source_summaries>>
    /\ ResearchOthers

\* lines 1129-1136: task 4 completed, task 5 in progress
research_crawled ==
    /\ rs_pc = "crawl"
    /\ rs_idx = Len(selected_urls)
    /\ LET t4 == set_status(tasks, 4, "completed")
           e4 == emit_progress(events, 4, t4, "completed")
           t5 == set_status(t4, 5, "in_progress")
       IN  /\ tasks' = t5
           /\ events' = emit_progress(e4, 5, t5, "in_progress")
    /\ rs_idx' = 0
    /\ rs_pc' = "analyze"
    /\ UNCHANGED <<rs_engines, search_queries, all_search_results, selected_urls,
                   crawled_contents, all_insights, source_summaries, rs_skipped,
                   rs_result>>
    /\ ResearchOthers

\* lines 1139-1151: one page of the insight loop
research_analyze(extracted) ==
    /\ rs_pc = "analyze"
    /\ rs_idx < Len(crawled_contents)
    /\ events' = emit_progress(events, 5, tasks, "in_progress")
    /\ rs_idx' = rs_idx + 1
    /\ IF extracted
       THEN /\ all_insights' = all_insights + 1
            /\ ItemOk("analyze")
       ELSE /\ UNCHANGED all_insights
            /\ ItemFailed({"insights"}, "insights", "analyze")
    /\ UNCHANGED <<rs_engines, tasks, search_queries, all_search_results,
                   selected_urls, crawled_contents, source_summaries>>
    /\ ResearchOthers

\* lines 1153-1168: task 5 completed, task 6 in progress
research_analyzed ==
    /\ rs_pc = "analyze"
    /\ rs_idx = Len(crawled_contents)
    /\ LET t5 == set_status(tasks, 5, "completed")
           e5 == emit_progress(events, 5, t5, "completed")
           t6 == set_status(t5, 6, "in_progress")
       IN  /\ tasks' = t6
           /\ events' = emit_progress(e5, 6, t6, "in_progress")
    /\ rs_idx' = 0
    /\ rs_pc' = "summarize"
    /\ UNCHANGED <<rs_engines, search_queries, all_search_results, selected_urls,
                   crawled_contents, all_insights, source_summaries, rs_skipped,
                   rs_result>>
    /\ ResearchOthers

\* lines 1172-1195: one page of the summary loop; a page whose url is not
\* among the search results is passed over without a call
research_summarize(summarized) ==
    /\ rs_pc = "summarize"
    /\ rs_idx < Len(crawled_contents)
    /\ rs_idx' = rs_idx + 1
    /\ LET url == crawled_contents[rs_idx + 1] IN
         IF contains(all_search_results, url)
         THEN /\ events' = emit_progress(events, 6, tasks, "in_progress")
              /\ IF summarized
                 THEN /\ source_summaries' = Append(source_summaries, url)
                      /\ ItemOk("summarize")
                 ELSE /\ UNCHANGED source_summaries
                      /\ ItemFailed({"summary"}, "summary", "summarize")
         ELSE /\ summarized
              /\ UNCHANGED <<events, source_summaries>>
              /\ ItemOk("summarize")
    /\ UNCHANGED <<rs_engines, tasks, search_queries, all_search_results,
                   selected_urls, crawled_contents, all_insights>>
    /\ ResearchOthers

\* lines 1197-1204: task 6 completed, task 7 in progress
research_summarized ==
    /\ rs_pc = "summarize"
    /\ rs_idx = Len(crawled_contents)
    /\ LET t6 == set_status(tasks, 6, "completed")
           e6 == emit_progress(events, 6, t6, "completed")
           t7 == set_status(t6, 7, "in_progress")
       IN  /\ tasks' = t7
           /\ events' = emit_progress(e6, 7, t7, "in_progress")
    /\ rs_pc' = "compile"
    /\ UNCHANGED <<rs_engines, search_queries, rs_idx, all_search_results,
                   selected_urls, crawled_contents, all_insights, source_summaries,
                   rs_skipped, rs_result>>
    /\ ResearchOthers

\* lines 1206-1214: ai::compile_final_report, task 7 completed
research_compile(compiled) ==
    /\ rs_pc = "compile"
    /\ IF ~compiled
       THEN /\ rs_result' = Some(Failed("compile"))
            /\ rs_pc' = "returned"
            /\ UNCHANGED <<tasks, events>>
       ELSE /\ tasks' = set_status(tasks, 7, "completed")
            /\ events' = emit_progress(events, 7, tasks', "completed")
            /\ rs_pc' = "log"
            /\ UNCHANGED rs_result
    /\ UNCHANGED <<rs_engines, search_queries, rs_idx, all_search_results,
                   selected_urls, crawled_contents, all_insights, source_summaries,
                   rs_skipped>>
    /\ ResearchOthers

\* lines 1216-1284: db::log_api_usage(..)?, db::save_memo(..).ok(), Ok(..)
research_log(logged, memo_saved) ==
    /\ rs_pc = "log"
    /\ rs_pc' = "returned"
    /\ IF ~logged
       THEN /\ ~memo_saved
            /\ rs_result' = Some(Failed("usage log"))
       ELSE rs_result' = Some(Ok([source_summaries |-> source_summaries,
                                  memo_id |-> IF memo_saved THEN Some(1) ELSE None]))
    /\ UNCHANGED <<rs_engines, tasks, events, search_queries, rs_idx,
                   all_search_results, selected_urls, crawled_contents, all_insights,
                   source_summaries, rs_skipped>>
    /\ ResearchOthers

(***************************************************************************)
(* lib.rs: reanalyze_memo                                                  *)
(***************************************************************************)
ChildTables == {"schedules", "todos", "transactions"}

\* the rows of a child table linked to memo id
Linked(tbl, id) == {x \in DOMAIN tbl : tbl[x].memo_id = id}

\* db::delete_schedules_by_memo_id / delete_todos_by_memo_id /
\* delete_transactions_by_memo_id: DELETE FROM .. WHERE memo_id = ?1
delete_by_memo_id(tbl, id) == delete_rows(tbl, Linked(tbl, id))

keep_on_error(tbl, id, failed) == tbl

\* db::delete_.._by_memo_id(id).ok(): the delete, its error discarded
delete_ok(tbl, id, failed) == IF failed THEN tbl ELSE delete_by_memo_id(tbl, id)

ReanalyzeIdle ==
    ra = [pc |-> "idle", runs |-> 0, result |-> "none"]

\* the command returns: its locals are dropped
reanalyze_returns(result, at) ==
    [pc |-> "idle", runs |-> ra.runs, result |-> result, failed_at |-> at,
     id |-> ra.id, item |-> ra.item, before |-> ra.before,
     failed_deletes |-> ra.failed_deletes, new_content |-> ra.new_content]

\* lines 351-363: the key check, the three deletes, db::get_all_categories
reanalyze_memo(id, new_content, failed_deletes, categories_ok) ==
    /\ ra.pc = "idle"
    /\ ra.runs < MaxReanalyses
    /\ schedules' = delete_ok(schedules, id, "schedules" \in failed_deletes)
    /\ todos' = delete_ok(todos, id, "todos" \in failed_deletes)
    /\ transactions' = delete_ok(transactions, id, "transactions" \in failed_deletes)
    /\ ra' = [pc |-> IF categories_ok THEN "analyze" ELSE "idle",
              runs |-> ra.runs + 1,
              result |-> IF categories_ok THEN "running" ELSE "Err",
              failed_at |-> IF categories_ok THEN "none" ELSE "categories",
              id |-> id, new_content |-> new_content, item |-> None,
              pending |-> NoPending, failed_deletes |-> failed_deletes,
              before |-> [memos |-> memos, schedules |-> schedules, todos |-> todos,
                          transactions |-> transactions, child_seq |-> child_seq]]
    /\ UNCHANGED <<foreign_keys, memos, memo_seq, child_seq, im_vars, other_vars, att, br, postits, mk,
                   ej>>

\* line 368: ai::analyze_multi_memo(..).await? returned Err
reanalyze_analysis_failed ==
    /\ ra.pc = "analyze"
    /\ ra' = reanalyze_returns("Err", "analysis")
    /\ UNCHANGED <<foreign_keys, memos, memo_seq, schedules, todos, transactions,
                   child_seq, im_vars, other_vars, att, br, postits, mk,
                   ej>>

\* lines 368-379: the analysis returned items; db::log_api_usage(..)?
reanalyze_analyzed(items, logged) ==
    /\ ra.pc = "analyze"
    /\ ra' = IF logged
             THEN [ra EXCEPT !.pc = "update",
                             !.item = IF items = <<>> THEN None ELSE Some(items[1])]
             ELSE reanalyze_returns("Err", "usage log")
    /\ UNCHANGED <<foreign_keys, memos, memo_seq, schedules, todos, transactions,
                   child_seq, im_vars, other_vars, att, br, postits, mk,
                   ej>>

\* lines 387-404: db::update_memo(..)? and db::update_memo_full(..)? with the
\* first item; without an item the command goes on to return
reanalyze_update(updated, updated_full) ==
    /\ ra.pc = "update"
    /\ IF ra.item = None
       THEN /\ updated /\ updated_full
            /\ ra' = reanalyze_returns("Ok", "none")
            /\ UNCHANGED memos
       ELSE LET analysis == ra.item[1]
                tags_str == join(analysis.tags, CommaSpace)
                first == db_update_memo(memos, ra.id, ra.new_content,
                                        analysis.formatted_content, analysis.summary,
                                        tags_str, None)
                second == db_update_memo_full(first, ra.id, analysis.title,
                                              analysis.formatted_content,
                                              analysis.category, tags_str,
                                              Some(ra.new_content))
            IN  IF ~updated
                THEN /\ ~updated_full
                     /\ UNCHANGED memos
                     /\ ra' = reanalyze_returns("Err", "update_memo")
                ELSE IF ~updated_full
                THEN /\ memos' = first
                     /\ ra' = reanalyze_returns("Err", "update_memo_full")
                ELSE /\ memos' = second
                     /\ ra' = [ra EXCEPT !.pc = "derived",
                                         !.pending =
                                            [schedules |-> analysis.schedules,
                                             todos |-> analysis.todos,
                                             transactions |-> analysis.transactions]]
    /\ UNCHANGED <<foreign_keys, memo_seq, schedules, todos, transactions, child_seq,
                   im_vars, other_vars, att, br, postits, mk,
                   ej>>

\* lines 407-450: the next db::save_schedule / save_todo / save_transaction
\* with memo_id: Some(id), followed by `?`
reanalyze_save(saved) ==
    /\ ra.pc = "derived"
    /\ NextKind(ra.pending) # "none"
    /\ LET kind == NextKind(ra.pending)
           row_id == child_seq[kind] + 1
           title == Head(ra.pending[kind])
           inserted == saved /\ fk_insert_ok(foreign_keys, memos, ra.id)
       IN  IF inserted
           THEN /\ schedules' = IF kind = "schedules"
                                THEN db_save_child(schedules, row_id, ra.id, title)
                                ELSE schedules
                /\ todos' = IF kind = "todos"
                            THEN db_save_child(todos, row_id, ra.id, title)
                            ELSE todos
                /\ transactions' = IF kind = "transactions"
                                   THEN db_save_child(transactions, row_id, ra.id, title)
                                   ELSE transactions
                /\ child_seq' = [child_seq EXCEPT ![kind] = @ + 1]
                /\ ra' = [ra EXCEPT !.pending[kind] = Tail(@)]
           ELSE /\ ra' = reanalyze_returns("Err", "save")
                /\ UNCHANGED <<schedules, todos, transactions, child_seq>>
    /\ UNCHANGED <<foreign_keys, memos, memo_seq, im_vars, other_vars, att, br, postits, mk,
                   ej>>

\* lines 453-470: Ok(InputResult)
reanalyze_return ==
    /\ ra.pc = "derived"
    /\ NextKind(ra.pending) = "none"
    /\ ra' = reanalyze_returns("Ok", "none")
    /\ UNCHANGED <<foreign_keys, memos, memo_seq, schedules, todos, transactions,
                   child_seq, im_vars, other_vars, att, br, postits, mk,
                   ej>>

(***************************************************************************)
(* db/mod.rs: save_attachment, get_attachments_by_memo,                    *)
(* get_and_delete_attachments_by_memo.  Each step below is one stretch     *)
(* under the connection mutex.                                             *)
(***************************************************************************)
AttachmentsIdle ==
    att = [rows |-> EmptyTable, seq |-> 0, pc |-> "idle", memo_id |-> NULL,
           fetched |-> {}, removed |-> {}, returned |-> {}, calls |-> 0]

\* WHERE memo_id = ?1
attachments_of(rows, memo_id) == {id \in DOMAIN rows : rows[id].memo_id = memo_id}

\* db::save_attachment: INSERT INTO attachments
save_attachment(memo_id) ==
    /\ lock(DB)
    /\ att.seq < MaxAttachments
    /\ att' = [att EXCEPT !.rows = insert_row(@, att.seq + 1, [memo_id |-> memo_id]),
                          !.seq = @ + 1]
    /\ UNCHANGED <<memo_vars, vault_vars, scan_vars, cost_vars, lock_vars, batch_vars,
                   key_vars, agent_vars, research_vars, ra, br, postits,
                   mk, ej, obs>>

\* get_and_delete_attachments_by_memo, line 1035: the call of
\* get_attachments_by_memo, which takes the guard and drops it on return
get_and_delete_select(memo_id) ==
    /\ lock(DB)
    /\ att.pc = "idle"
    /\ att.calls < MaxDeleteCalls
    /\ att' = [att EXCEPT !.pc = "delete", !.memo_id = memo_id,
                          !.fetched = attachments_of(att.rows, memo_id),
                          !.removed = {}, !.returned = {},
                          !.calls = @ + 1]
    /\ UNCHANGED <<memo_vars, vault_vars, scan_vars, cost_vars, lock_vars, batch_vars,
                   key_vars, agent_vars, research_vars, ra, br, postits,
                   mk, ej, obs>>

\* lines 1036-1038: the guard is taken again, DELETE .. WHERE memo_id = ?1,
\* Ok(attachments)
get_and_delete_delete ==
    /\ lock(DB)
    /\ att.pc = "delete"
    /\ att' = [att EXCEPT !.pc = "idle",
                          !.removed = attachments_of(att.rows, att.memo_id),
                          !.returned = att.fetched,
                          !.rows = delete_rows(@, attachments_of(att.rows, att.memo_id))]
    /\ UNCHANGED <<memo_vars, vault_vars, scan_vars, cost_vars, lock_vars, batch_vars,
                   key_vars, agent_vars, research_vars, ra, br, postits,
                   mk, ej, obs>>

(***************************************************************************)
(* ai.rs: get_headless_browser, get_browser                                *)
(***************************************************************************)
Callers == 1..MaxCallers

\* HEADLESS_BROWSER and BROWSER
BrowserKinds == {"headless", "gui"}

BrowsersIdle ==
    br = [cache |-> [k \in BrowserKinds |-> None],
          mutex |-> [k \in BrowserKinds |-> 0],
          launches |-> [k \in BrowserKinds |-> 0],
          live |-> [k \in BrowserKinds |-> {}],
          pc |-> [c \in Callers |-> "idle"],
          kind |-> [c \in Callers |-> "none"],
          got |-> [c \in Callers |-> None],
          calls |-> 0]

lock_not_awaited(holder) == TRUE

\* tokio::sync::Mutex::lock().await completes only when no task holds the mutex
lock_await(holder) == holder = 0

\* a task calls the getter of the cache `kind`
get_cached_browser(c, kind) ==
    /\ br.pc[c] = "idle"
    /\ br.calls < MaxBrowserCalls
    /\ br' = [br EXCEPT !.pc[c] = "lock", !.kind[c] = kind, !.got[c] = None,
                        !.calls = @ + 1]
    /\ UNCHANGED <<memo_vars, vault_vars, scan_vars, cost_vars, lock_vars, batch_vars,
                   key_vars, agent_vars, research_vars, ra, att, postits,
                   mk, ej, obs>>

get_headless_browser(c) == get_cached_browser(c, "headless")

get_browser(c) == get_cached_browser(c, "gui")

\* lines 191-195 / 221-225: the lock, then the cached instance if there is one
browser_lock(c) ==
    /\ br.pc[c] = "lock"
    /\ lock_await(br.mutex[br.kind[c]])
    /\ LET kind == br.kind[c]
       IN  br' = IF br.cache[kind] # None
                 THEN [br EXCEPT !.pc[c] = "idle", !.got[c] = Some(Ok(br.cache[kind][1]))]
                 ELSE [br EXCEPT !.pc[c] = "launch", !.mutex[kind] = c]
    /\ UNCHANGED <<memo_vars, vault_vars, scan_vars, cost_vars, lock_vars, batch_vars,
                   key_vars, agent_vars, research_vars, ra, att, postits,
                   mk, ej, obs>>

\* lines 198-216 / 227-261: Browser::launch(config).await with the guard held;
\* on Err the function returns, on Ok the instance is cached; either way the
\* guard is dropped
browser_launch(c, launched) ==
    /\ br.pc[c] = "launch"
    /\ LET kind == br.kind[c]
           browser == br.launches[kind] + 1
       IN  br' = IF launched
                 THEN [br EXCEPT !.pc[c] = "idle", !.mutex[kind] = 0,
                                 !.launches[kind] = browser,
                                 !.live[kind] = @ \cup {browser},
                                 !.cache[kind] = Some(browser),
                                 !.got[c] = Some(Ok(browser))]
                 ELSE [br EXCEPT !.pc[c] = "idle", !.mutex[kind] = 0,
                                 !.launches[kind] = browser,
                                 !.got[c] = Some(Err)]
    /\ UNCHANGED <<memo_vars, vault_vars, scan_vars, cost_vars, lock_vars, batch_vars,
                   key_vars, agent_vars, research_vars, ra, att, postits,
                   mk, ej, obs>>

(***************************************************************************)
(* lib.rs: open_widget("postit"), save_postit, delete_postit               *)
(***************************************************************************)
POSTIT_LIMIT == 10

PostitsIdle ==
    postits = [rows |-> {}, windows |-> {}, clock |-> 0,
               last |-> [op |-> "none"]]

\* open_widget with widget_type "postit": the limit check of lines 2387-2390,
\* the id (the given one, or the clock's milliseconds), the window
open_widget(widget_id) ==
    LET existing_postits == postits.rows
        rejected == Cardinality(existing_postits) >= POSTIT_LIMIT /\ widget_id = None
        id == IF widget_id = None THEN postits.clock + 1 ELSE widget_id[1]
    IN  /\ postits.clock < MaxPostitWindows
        /\ postits' =
              IF rejected
              THEN [postits EXCEPT !.last = [op |-> "open_widget", ok |-> FALSE,
                                             widget_id |-> widget_id,
                                             existing |-> existing_postits]]
              ELSE [postits EXCEPT !.windows = @ \cup {id},
                                   !.clock = IF widget_id = None THEN id ELSE @,
                                   !.last = [op |-> "open_widget", ok |-> TRUE,
                                             widget_id |-> widget_id,
                                             existing |-> existing_postits]]
        /\ UNCHANGED <<memo_vars, vault_vars, scan_vars, cost_vars, lock_vars, batch_vars,
                       key_vars, agent_vars, research_vars, ra, att, br, mk,
                       ej, obs>>

\* save_postit -> db::save_postit: INSERT OR REPLACE INTO postits
save_postit(id) ==
    /\ postits' = [postits EXCEPT !.rows = @ \cup {id}, !.last = [op |-> "save_postit"]]
    /\ UNCHANGED <<memo_vars, vault_vars, scan_vars, cost_vars, lock_vars, batch_vars,
                   key_vars, agent_vars, research_vars, ra, att, br, mk,
                       ej, obs>>

\* delete_postit -> db::delete_postit: DELETE FROM postits WHERE id = ?1
delete_postit(id) ==
    /\ postits' = [postits EXCEPT !.rows = @ \ {id}, !.last = [op |-> "delete_postit"]]
    /\ UNCHANGED <<memo_vars, vault_vars, scan_vars, cost_vars, lock_vars, batch_vars,
                   key_vars, agent_vars, research_vars, ra, att, br, mk,
                       ej, obs>>

(***************************************************************************)
(* ai.rs: mask_sensitive_info, unmask_text.  A text is a sequence of       *)
(* characters; the Hangul label of a token is one element of it.           *)
(***************************************************************************)
Lower ==
    {"a", "b", "c", "d", "e", "f", "g", "h", "i", "j", "k", "l", "m", "n", "o", "p",
     "q", "r", "s", "t", "u", "v", "w", "x", "y", "z"}

Upper ==
    {"A", "B", "C", "D", "E", "F", "G", "H", "I", "J", "K", "L", "M", "N", "O", "P",
     "Q", "R", "S", "T", "U", "V", "W", "X", "Y", "Z"}

Digit ==
    {"0", "1", "2", "3", "4", "5", "6", "7", "8", "9"}

Space == {" ", "\t", "\n"}

\* one regex item: a character class (a set, or its complement) repeated
\* min..max times, greedy
Rep(set, min_count, max_count) ==
    [set |-> set, negated |-> FALSE, min |-> min_count, max |-> max_count]

NotIn(set, min_count, max_count) ==
    [set |-> set, negated |-> TRUE, min |-> min_count, max |-> max_count]

Unbounded == 1000

\* a literal, character by character
Lit(chars) == [i \in 1..Len(chars) |-> Rep({chars[i]}, 1, 1)]

\* a literal under (?i)
LitAnyCase(lower, upper) == [i \in 1..Len(lower) |-> Rep({lower[i], upper[i]}, 1, 1)]

in_class(c, item) == (c \in item.set) # item.negated

\* the number of characters from position i on that are in the item's class,
\* at most `most`
RECURSIVE run_length(_, _, _, _)
run_length(item, text, i, most) ==
    IF most = 0 \/ i > Len(text) \/ ~in_class(text[i], item) THEN 0
    ELSE 1 + run_length(item, text, i + 1, most - 1)

\* the backtracking match of a sequence of items at position i: the position
\* after the match, every item taking as much as the rest allows; 0 for none
RECURSIVE match_at(_, _, _)
match_at(items, text, i) ==
    IF items = <<>> THEN i
    ELSE LET item == Head(items)
             most == run_length(item, text, i, item.max)
             good == {n \in item.min..most : match_at(Tail(items), text, i + n) # 0}
         IN  IF good = {} THEN 0
             ELSE match_at(Tail(items), text,
                           i + CHOOSE n \in good : \A k \in good : k <= n)

\* a regex is a sequence of alternatives, tried in order
RECURSIVE first_alternative(_, _, _)
first_alternative(regex, text, i) ==
    IF regex = <<>> THEN 0
    ELSE IF match_at(Head(regex), text, i) # 0 THEN match_at(Head(regex), text, i)
    ELSE first_alternative(Tail(regex), text, i)

\* re.find_iter(&masked).map(|m| m.as_str().to_string()).collect(): the
\* leftmost matches, none overlapping the one before
RECURSIVE find_iter(_, _, _)
find_iter(regex, text, i) ==
    IF i > Len(text) THEN <<>>
    ELSE LET end == first_alternative(regex, text, i)
         IN  IF end > i
             THEN <<SubSeq(text, i, end - 1)>> \o find_iter(regex, text, end)
             ELSE find_iter(regex, text, i + 1)

\* the first position from i on where `pat` occurs in text, 0 for none
RECURSIVE index_of(_, _, _)
index_of(text, pat, i) ==
    IF i + Len(pat) - 1 > Len(text) THEN 0
    ELSE IF SubSeq(text, i, i + Len(pat) - 1) = pat THEN i
    ELSE index_of(text, pat, i + 1)

\* str::replacen(pat, to, 1)
replacen(text, pat, to) ==
    LET at == index_of(text, pat, 1)
    IN  IF at = 0 \/ pat = <<>> THEN text
        ELSE SubSeq(text, 1, at - 1) \o to \o SubSeq(text, at + Len(pat), Len(text))

\* str::replace(pat, to): every occurrence, left to right
RECURSIVE replace(_, _, _)
replace(text, pat, to) ==
    LET at == index_of(text, pat, 1)
    IN  IF at = 0 \/ pat = <<>> THEN text
        ELSE SubSeq(text, 1, at - 1) \o to
               \o replace(SubSeq(text, at + Len(pat), Len(text)), pat, to)

\* format!("{}", counter)
RECURSIVE to_decimal(_)
to_decimal(n) ==
    LET digit == <<"0", "1", "2", "3", "4", "5", "6", "7", "8", "9">>[(n % 10) + 1]
    IN  IF n < 10 THEN <<digit>> ELSE to_decimal(n \div 10) \o <<digit>>

\* make_token: format!("[{}_{}]", label, counter)
make_token(label, counter) == <<"[", label, "_">> \o to_decimal(counter) \o <<"]">>

KeyChar == Digit \cup Lower \cup Upper

\* the patterns of lines 404-486 with their labels, in order.  The bank
\* names of pattern 6 other than SC, pattern 7 (which begins with the name of
\* a province) and the Hangul keywords of pattern 8 need Hangul input and are
\* left out.
Patterns ==
    << [label |-> "API_KEY",
        regex |-> << Lit(<<"A", "I", "z", "a">>) \o <<Rep(KeyChar \cup {"_", "-"}, 35, 35)>> >>],
       [label |-> "API_KEY",
        regex |-> << Lit(<<"s", "k", "-">>) \o <<Rep(KeyChar, 48, 48)>> >>],
       [label |-> "API_KEY",
        regex |-> << Lit(<<"s", "k", "-", "p", "r", "o", "j", "-">>)
                       \o <<Rep(KeyChar \cup {"_", "-"}, 100, Unbounded)>> >>],
       [label |-> "API_KEY",
        regex |-> << Lit(<<"A", "K", "I", "A">>) \o <<Rep(Digit \cup Upper, 16, 16)>> >>],
       [label |-> "API_KEY",
        regex |-> << Lit(<<"g", "h", "p", "_">>) \o <<Rep(KeyChar, 36, 36)>> >>],
       [label |-> "API_KEY",
        regex |-> << Lit(<<"g", "l", "p", "a", "t", "-">>)
                       \o <<Rep(KeyChar \cup {"_", "-"}, 20, 20)>> >>],
       [label |-> "RESIDENT_NUMBER",
        regex |-> << <<Rep(Digit, 6, 6), Rep({"-"} \cup Space, 0, 1), Rep(Digit, 7, 7)>> >>],
       [label |-> "PHONE",
        regex |-> << <<Rep({"0"}, 1, 1), Rep(Digit, 1, 2),
                       Rep({"-", "."} \cup Space, 0, 1), Rep(Digit, 3, 4),
                       Rep({"-", "."} \cup Space, 0, 1), Rep(Digit, 4, 4)>> >>],
       [label |-> "EMAIL",
        regex |-> << <<Rep(KeyChar \cup {".", "_", "%", "+", "-"}, 1, Unbounded),
                       Rep({"@"}, 1, 1),
                       Rep(KeyChar \cup {".", "-"}, 1, Unbounded),
                       Rep({"."}, 1, 1),
                       Rep(Lower \cup Upper, 2, Unbounded)>> >>],
       [label |-> "CARD",
        regex |-> << <<Rep(Digit, 4, 4), Rep({"-"} \cup Space, 0, 1),
                       Rep(Digit, 4, 4), Rep({"-"} \cup Space, 0, 1),
                       Rep(Digit, 4, 4), Rep({"-"} \cup Space, 0, 1),
                       Rep(Digit, 4, 4)>> >>],
       [label |-> "ACCOUNT",
        regex |-> << Lit(<<"S", "C">>) \o <<NotIn({"\n"}, 0, 5), Rep(Digit, 10, 14)>> >>],
       [label |-> "PASSWORD",
        regex |-> << LitAnyCase(<<"p", "a", "s", "s", "w", "o", "r", "d">>,
                                <<"P", "A", "S", "S", "W", "O", "R", "D">>)
                       \o <<Rep(Space, 0, Unbounded), Rep({":", "="}, 1, 1),
                            Rep(Space, 0, Unbounded), NotIn(Space, 1, Unbounded)>>,
                     LitAnyCase(<<"p", "w">>, <<"P", "W">>)
                       \o <<Rep(Space, 0, Unbounded), Rep({":", "="}, 1, 1),
                            Rep(Space, 0, Unbounded), NotIn(Space, 1, Unbounded)>> >>] >>

\* `for m in matches { let token = make_token(label, &m); masked =
\* masked.replacen(&m, &token, 1); }`
RECURSIVE mask_matches(_, _, _)
mask_matches(result, label, matches) ==
    IF matches = <<>> THEN result
    ELSE LET m == Head(matches)
             token == make_token(label, Len(result.mappings) + 1)
         IN  mask_matches([masked |-> replacen(result.masked, m, token),
                           mappings |-> Append(result.mappings, <<token, m>>)],
                          label, Tail(matches))

RECURSIVE mask_patterns(_, _)
mask_patterns(result, patterns) ==
    IF patterns = <<>> THEN result
    ELSE mask_patterns(mask_matches(result, Head(patterns).label,
                                    find_iter(Head(patterns).regex, result.masked, 1)),
                       Tail(patterns))

\* mask_sensitive_info: MaskResult { masked, mappings }
mask_sensitive_info(text) ==
    mask_patterns([masked |-> text, mappings |-> <<>>], Patterns)

\* unmask_text: every mapping in order, result.replace(token, original)
RECURSIVE unmask_text(_, _)
unmask_text(masked_text, mappings) ==
    IF mappings = <<>> THEN masked_text
    ELSE unmask_text(replace(masked_text, Head(mappings)[1], Head(mappings)[2]),
                     Tail(mappings))

\* the pieces the input texts are made of
Words ==
    { <<"p", "w", "=">>, <<"a", "@", "b", ".", "c", "c">>,
      <<"0", "2", "1", "2", "3", "4", "5", "6", "7">>, <<" ">>, <<"x">> }

RECURSIVE Concat(_)
Concat(words) == IF words = <<>> THEN <<>> ELSE Head(words) \o Concat(Tail(words))

Texts == {Concat(words) : words \in UNION {[1..n -> Words] : n \in 1..MaxWords}}

\* a caller that holds `text` and has not masked it yet
Unmasked(text) == [pc |-> "text", text |-> text, result |-> None, restored |-> None]

MaskIdle == mk = Unmasked(<<>>)

\* the caller masks its text
mask(text) ==
    /\ mk.pc = "text"
    /\ mk' = [mk EXCEPT !.pc = "masked", !.result = Some(mask_sensitive_info(text))]
    /\ UNCHANGED <<memo_vars, vault_vars, scan_vars, cost_vars, lock_vars, batch_vars,
                   key_vars, agent_vars, research_vars, ra, att, br, postits,
                   ej, obs>>

\* the caller restores the masked text with the mappings
unmask ==
    /\ mk.pc = "masked"
    /\ mk' = [mk EXCEPT !.pc = "restored",
                        !.restored = Some(unmask_text(mk.result[1].masked,
                                                      mk.result[1].mappings))]
    /\ UNCHANGED <<memo_vars, vault_vars, scan_vars, cost_vars, lock_vars, batch_vars,
                   key_vars, agent_vars, research_vars, ra, att, br, postits,
                   ej, obs>>

(***************************************************************************)
(* ai.rs: extract_json.  Offsets count from 0 as in the source; -1 is None. *)
(***************************************************************************)
\* str::find
str_find(text, pat) == index_of(text, pat, 1) - 1

\* str::rfind
str_rfind(text, pat) ==
    LET at == {i \in 0..(Len(text) - Len(pat)) : SubSeq(text, i + 1, i + Len(pat)) = pat}
    IN  IF at = {} THEN -1 ELSE CHOOSE i \in at : \A j \in at : j <= i

\* &text[from..to]
slice(text, from, to) == SubSeq(text, from + 1, to)

\* str::trim
RECURSIVE trim_start(_)
trim_start(text) ==
    IF text # <<>> /\ Head(text) \in Space THEN trim_start(Tail(text)) ELSE text

RECURSIVE trim_end(_)
trim_end(text) ==
    IF text # <<>> /\ text[Len(text)] \in Space
    THEN trim_end(SubSeq(text, 1, Len(text) - 1)) ELSE text

trim(text) == trim_end(trim_start(text))

\* the grave accent, which a string of this module cannot hold
Tick == "GRAVE"

Fence == <<Tick, Tick, Tick>>

JsonFence == Fence \o <<"j", "s", "o", "n">>

\* lines 123-137: the text from the first '{' to the last '}', else from the
\* first '[' to the last ']', else the text
bare_block(text) ==
    LET brace == str_find(text, <<"{">>)
        brace_end == str_rfind(text, <<"}">>)
        bracket == str_find(text, <<"[">>)
        bracket_end == str_rfind(text, <<"]">>)
    IN  IF brace # -1 /\ brace_end # -1 /\ brace_end > brace
        THEN slice(text, brace, brace_end + 1)
        ELSE IF bracket # -1 /\ bracket_end # -1 /\ bracket_end > bracket
        THEN slice(text, bracket, bracket_end + 1)
        ELSE text

\* lines 110-126: the text between the first fence and the next one, without
\* its first line when that line names a language
fenced_block(text) ==
    LET start == str_find(text, Fence)
        after_first == start + 3
        end == IF start = -1 THEN -1
               ELSE str_find(slice(text, after_first, Len(text)), Fence)
        content == slice(text, after_first, after_first + end)
        newline == str_find(content, <<"\n">>)
    IN  IF start = -1 \/ end = -1 THEN bare_block(text)
        ELSE IF content # <<>> /\ Head(content) = "\n" THEN trim(content)
        ELSE IF newline # -1 THEN trim(slice(content, newline, Len(content)))
        ELSE trim(content)

\* extract_json: the block fenced as json first
extract_json(reply) ==
    LET text == trim(reply)
        start == str_find(text, JsonFence)
        rest == slice(text, start, Len(text))
        closing == str_find(rest, Fence \o <<"\n">>)
        end == IF closing # -1 THEN closing ELSE str_rfind(rest, Fence)
        json_start == start + 7
        json_end == start + end
    IN  IF start # -1 /\ end # -1 /\ json_end > json_start
        THEN trim(slice(text, json_start, json_end))
        ELSE fenced_block(text)

\* the pieces the replies are made of
Parts == {JsonFence, Fence, <<"\n">>, <<"{">>, <<"}">>, <<"[">>, <<"]">>, <<"1">>}

Replies == {Concat(parts) : parts \in UNION {[1..n -> Parts] : n \in 1..MaxParts}}

Unextracted(text) == [pc |-> "reply", text |-> text, once |-> None, twice |-> None]

ExtractIdle == ej = Unextracted(<<>>)

\* a caller extracts the JSON of the reply
extract ==
    /\ ej.pc = "reply"
    /\ ej' = [ej EXCEPT !.pc = "once", !.once = Some(extract_json(ej.text))]
    /\ UNCHANGED <<memo_vars, vault_vars, scan_vars, cost_vars, lock_vars, batch_vars,
                   key_vars, agent_vars, research_vars, ra, att, br, postits, mk, obs>>

\* extract_json applied to its own output
extract_again ==
    /\ ej.pc = "once"
    /\ ej' = [ej EXCEPT !.pc = "twice", !.twice = Some(extract_json(ej.once[1]))]
    /\ UNCHANGED <<memo_vars, vault_vars, scan_vars, cost_vars, lock_vars, batch_vars,
                   key_vars, agent_vars, research_vars, ra, att, br, postits, mk, obs>>

CommandsIdle ==
    /\ CostIdle /\ LockIdle /\ BatchIdle /\ KeyIdle /\ AgentIdle /\ ResearchIdle
    /\ ReanalyzeIdle
    /\ AttachmentsIdle
    /\ BrowsersIdle
    /\ PostitsIdle

AiIdle == CommandsIdle /\ MaskIdle /\ ExtractIdle

\* the vault after the first init_db on a new database file
VaultFresh ==
    /\ ENCRYPTION_KEY = FirstKey
    /\ settings = insert_or_replace(default_settings(EmptyTable),
                                    K_encryption_key, BASE64_encode(FirstKey))
    /\ secret_keys = EmptyTable
    /\ secret_seq = 0
    /\ sk_written = EmptyTable
    /\ vault_commands = 0

MemoInit ==
    /\ MemoFresh
    /\ VaultFresh
    /\ ScanIdle
    /\ AiIdle
    /\ obs = [op |-> "init"]

MemoSpec == MemoInit /\ [][MemoNext]_vars

\* input_memo submissions one after another, with database errors
MemoFailNext ==
    \/ \E content \in Contents(commands + 1) : input_memo_start(content)
    \/ \E n \in 0..(MaxItems - items_returned) : input_memo_analyzed(n)
    \/ input_memo_analysis_failed
    \/ \E analysis \in AnalysisItems : input_memo_item(analysis)
    \/ input_memo_save_schedule
    \/ input_memo_save_todo
    \/ input_memo_save_transaction
    \/ input_memo_db_error
    \/ input_memo_item_done
    \/ input_memo_return

MemoFailSpec == MemoInit /\ [][MemoFailNext]_vars

\* values a caller may pass to save_setting
SettingValues ==
    { <<33>>,
      BASE64_encode([i \in 1..(KeyLen - 1) |-> 17]),
      BASE64_encode([i \in 1..KeyLen |-> 99]) }

\* the SecretKeyInput values a caller passes
SecretInputs ==
    { [key_value |-> <<>>, provider |-> "OpenAI", key_type |-> "API_KEY"],
      [key_value |-> <<65>>, provider |-> "AWS", key_type |-> "SECRET"],
      [key_value |-> <<195, 169>>, provider |-> "OpenAI", key_type |-> "SECRET"] }

VaultInit ==
    /\ MemoFresh /\ foreign_keys
    /\ VaultFresh
    /\ ScanIdle
    /\ AiIdle
    /\ obs = [op |-> "init"]

VaultNext ==
    \/ \E key \in SecretInputs, nonce_bytes \in Nonces : save_secret_key(key, nonce_bytes)
    \/ \E id \in DOMAIN secret_keys \cup {secret_seq + 1},
          key \in SecretInputs, nonce_bytes \in Nonces :
          update_secret_key(id, key, nonce_bytes)
    \/ \E id \in DOMAIN secret_keys \cup {secret_seq + 1} : delete_secret_key(id)
    \/ get_all_secret_keys
    \/ get_secret_keys_by_provider("OpenAI")
    \/ get_secret_keys_by_type("SECRET")
    \/ \E value \in SettingValues : save_setting(K_encryption_key, value)
    \/ save_setting(K_gemini_api_key, <<65>>)
    \/ \E fresh \in Keys, stored \in BOOLEAN : restart(fresh, stored)

VaultSpec == VaultInit /\ [][VaultNext]_vars

\* key_value texts a database file found at start may hold: not base64, fewer
\* than 12 decoded bytes, too short for a tag, written under another key, the
\* encryption of bytes that are not UTF-8, and a value written under this key
StoredTexts ==
    { <<33>>,
      BASE64_encode(<<1, 2, 3>>),
      encrypt_value([i \in 1..KeyLen |-> 42], [i \in 1..NonceLen |-> 3], <<65>>),
      encrypt_value(FirstKey, [i \in 1..NonceLen |-> 3], <<255>>),
      encrypt_value(FirstKey, [i \in 1..NonceLen |-> 200], <<66, 67>>) }

\* init_db on a database file that already holds secret_keys rows
VaultReadInit ==
    /\ MemoFresh /\ foreign_keys
    /\ ScanIdle
    /\ AiIdle
    /\ ENCRYPTION_KEY = FirstKey
    /\ settings = insert_or_replace(default_settings(EmptyTable),
                                    K_encryption_key, BASE64_encode(FirstKey))
    /\ \E texts \in [1..MaxStoredRows -> StoredTexts] :
          secret_keys = [id \in 1..MaxStoredRows |->
                           [key_value |-> texts[id],
                            provider |-> IF id % 2 = 1 THEN "OpenAI" ELSE "AWS",
                            key_type |-> IF id = 1 THEN "API_KEY" ELSE "SECRET"]]
    /\ secret_seq = MaxStoredRows
    /\ sk_written = EmptyTable
    /\ vault_commands = 0
    /\ obs = [op |-> "init"]

VaultReadNext ==
    \/ get_all_secret_keys
    \/ \E provider \in {"OpenAI", "AWS"} : get_secret_keys_by_provider(provider)
    \/ \E key_type \in {"API_KEY", "SECRET"} : get_secret_keys_by_type(key_type)

VaultReadSpec == VaultReadInit /\ [][VaultReadNext]_vars

ScanInit ==
    /\ MemoFresh /\ foreign_keys
    /\ VaultFresh
    /\ ScanIdle
    /\ AiIdle
    /\ obs = [op |-> "init"]

ScanNext ==
    \/ cancel_scan
    \/ \E p \in Scans, path \in {Root, "/missing"} : scan_for_consulting(p, path)
    \/ \E p \in Scans : scan_while(p)
    \/ \E p \in Scans : scan_for(p)
    \/ \E p \in Scans : scan_return(p)

ScanSpec == ScanInit /\ [][ScanNext]_vars

\* one scan that is never cancelled, of the tree with the link cycle too
Walker == CHOOSE p \in Scans : \A q \in Scans : p <= q

WalkNext ==
    \/ \E path \in {Cycle, Through(1), Through(2), Root} :
          scan_for_consulting(Walker, path)
    \/ scan_while(Walker)
    \/ scan_for(Walker)
    \/ scan_return(Walker)

WalkSpec == ScanInit /\ [][WalkNext]_vars

\* the scan runs on its own thread until it returns
WalkFairSpec ==
    WalkSpec /\ WF_vars(scan_while(Walker) \/ scan_for(Walker) \/ scan_return(Walker))

CostInit ==
    /\ MemoFresh /\ foreign_keys
    /\ VaultFresh
    /\ ScanIdle
    /\ AiIdle
    /\ obs = [op |-> "init"]

CostNext ==
    \/ \E fn \in CostCallers, model \in ModelNames,
          input_tokens \in 0..MaxTokens, output_tokens \in 0..MaxTokens :
          cost_by_call(fn, model, input_tokens, output_tokens)
    \/ \E fn \in InlineCostSites, model \in ModelNames,
          input_tokens \in 0..MaxTokens, output_tokens \in 0..MaxTokens :
          cost_inline(fn, model, input_tokens, output_tokens)

CostSpec == CostInit /\ [][CostNext]_vars

LockNext ==
    \/ \E t \in Threads, fn \in DOMAIN DbFunctions : db_call(t, fn)
    \/ \E t \in Threads : db_lock(t)
    \/ \E t \in Threads, ok \in BOOLEAN : db_statement(t, ok)
    \/ \E t \in Threads : db_return(t)

LockSpec == CostInit /\ [][LockNext]_vars

BatchNext ==
    \/ \E urls \in UrlLists : extract_data_batch(urls)
    \/ \E url \in Urls : \E outcome \in ExtractOutcomes(url) :
          extract_data_batch_for(outcome)
    \/ extract_data_batch_return

BatchSpec == CostInit /\ [][BatchNext]_vars

ApiKeys == {<<>>, <<65, 73>>}

KeyNext ==
    \/ \E value \in ApiKeys : save_setting(K_gemini_api_key, value)
    \/ \E cmd \in DOMAIN AiCommands, row_read \in BOOLEAN, remote_ok \in BOOLEAN,
          rows \in {0, 1} : ai_command(cmd, row_read, remote_ok, rows)

KeySpec == CostInit /\ [][KeyNext]_vars

\* the max_steps arguments: none, small ones, and one above the cap
RequestedSteps ==
    {None} \cup {Some(n) : n \in 0..MaxRequestedSteps} \cup {Some(AGENT_STEP_LIMIT + 1)}

AgentLoop ==
    \/ \E decided \in DecideOutcomes, executed \in BOOLEAN :
          run_agent_for(decided, executed)
    \/ run_agent_exceeded

AgentNext ==
    \/ \E requested \in RequestedSteps, browser_ok \in BOOLEAN :
          run_agent(requested, browser_ok)
    \/ AgentLoop

AgentSpec == CostInit /\ [][AgentNext]_vars

\* every await of the loop completes: the model answers or the request fails
AgentFairSpec == AgentSpec /\ WF_vars(AgentLoop)

ResearchNext ==
    \/ \E gemini_key \in BOOLEAN, has_naver \in BOOLEAN, has_google \in BOOLEAN :
          run_research(gemini_key, has_naver, has_google)
    \/ \E planned \in {Failed("plan")} \cup {Ok(n) : n \in 0..MaxQueries} :
          research_plan(planned)
    \/ \E google \in GoogleOutcomes, naver \in NaverOutcomes \cup {Ok(<<>>)} :
          research_search(google, naver)
    \/ research_searched
    \/ \E selected \in {Failed("select")} \cup {Ok(l) : l \in SelectedLists} :
          research_select(selected)
    \/ \E fetched \in FetchOutcomes : research_crawl(fetched)
    \/ research_crawled
    \/ \E extracted \in BOOLEAN : research_analyze(extracted)
    \/ research_analyzed
    \/ \E summarized \in BOOLEAN : research_summarize(summarized)
    \/ research_summarized
    \/ \E compiled \in BOOLEAN : research_compile(compiled)
    \/ \E logged \in BOOLEAN, memo_saved \in BOOLEAN : research_log(logged, memo_saved)

ResearchSpec == CostInit /\ [][ResearchNext]_vars

\* a memo row as input_memo saves it
StoredMemo(title) ==
    [title |-> title, content |-> <<"p">>, formatted_content |-> <<"f">>,
     summary |-> <<"s">>, category |-> <<"c">>, tags |-> <<"t">>,
     embedding |-> None]

\* the tables after two input_memo commands: memo 1 with a schedule, a todo
\* and a transaction, memo 2 with a schedule
LinkedTables ==
    /\ memos = insert_row(insert_row(EmptyTable, 1, StoredMemo(<<"A">>)),
                          2, StoredMemo(<<"B">>))
    /\ memo_seq = 2
    /\ schedules = db_save_child(db_save_child(EmptyTable, 1, 1, <<"m">>),
                                 2, 2, <<"k">>)
    /\ todos = db_save_child(EmptyTable, 1, 1, <<"n">>)
    /\ transactions = db_save_child(EmptyTable, 1, 1, <<"o">>)
    /\ child_seq = [schedules |-> 2, todos |-> 1, transactions |-> 1]

ReanalyzeInit ==
    /\ foreign_keys \in BOOLEAN
    /\ LinkedTables
    /\ im_pc = "idle" /\ im_content = <<>> /\ existing_memos = EmptyTable
    /\ im_left = 0 /\ im_item = None /\ im_memo_id = NULL
    /\ im_pending = NoPending /\ im_result = "none"
    /\ commands = 0 /\ items_returned = 0
    /\ VaultFresh
    /\ ScanIdle
    /\ AiIdle
    /\ obs = [op |-> "init"]

\* the item lists the remote analysis returns to reanalyze_memo
ReanalysisItems ==
    {<<>>} \cup {<<a>> : a \in AnalysisItems} \cup
    {<<a, b>> : a \in {x \in AnalysisItems : x.should_merge_with = NULL},
               b \in {x \in AnalysisItems : x.should_merge_with = 1}}

ReanalyzeNext ==
    \/ \E id \in {1, 3}, failed_deletes \in {{}, {"todos"}}, categories_ok \in BOOLEAN :
          reanalyze_memo(id, <<"v">>, failed_deletes, categories_ok)
    \/ reanalyze_analysis_failed
    \/ \E items \in ReanalysisItems, logged \in BOOLEAN : reanalyze_analyzed(items, logged)
    \/ \E updated \in BOOLEAN, updated_full \in BOOLEAN :
          reanalyze_update(updated, updated_full)
    \/ \E saved \in BOOLEAN : reanalyze_save(saved)
    \/ reanalyze_return

ReanalyzeSpec == ReanalyzeInit /\ [][ReanalyzeNext]_vars

(***************************************************************************)
(* lib.rs: delete_schedule, delete_todo, delete_transaction                *)
(***************************************************************************)
\* db::get_schedule_memo_id / get_todo_memo_id / get_transaction_memo_id:
\* SELECT memo_id .. WHERE id = ?1, a missing row read as Ok(None)
get_memo_id(tbl, id) ==
    IF id \in DOMAIN tbl /\ tbl[id].memo_id # NULL THEN Some(tbl[id].memo_id) ELSE None

\* db::delete_schedule / delete_todo / delete_transaction
db_delete_item(tbl, id) == delete_rows(tbl, {id} \cap DOMAIN tbl)

\* the body shared by the three commands: the linked memo is looked up and
\* deleted (its error discarded), then the item is deleted
delete_item(kind, id) ==
    LET tbl == IF kind = "schedules" THEN schedules
               ELSE IF kind = "todos" THEN todos ELSE transactions
        found == get_memo_id(tbl, id)
        ids == IF found = None THEN {} ELSE where_id(memos, found[1])
        after(child) == on_delete_set_null(foreign_keys, child, ids)
    IN  /\ commands < MaxCommands
        /\ commands' = commands + 1
        /\ memos' = IF found = None THEN memos ELSE db_delete_memo(memos, found[1])
        /\ schedules' = IF kind = "schedules" THEN db_delete_item(after(schedules), id)
                        ELSE after(schedules)
        /\ todos' = IF kind = "todos" THEN db_delete_item(after(todos), id)
                    ELSE after(todos)
        /\ transactions' = IF kind = "transactions"
                           THEN db_delete_item(after(transactions), id)
                           ELSE after(transactions)
        /\ obs' = [op |-> "delete_item", kind |-> kind, id |-> id, memo_id |-> found,
                   before |-> [memos |-> memos, schedules |-> schedules,
                               todos |-> todos, transactions |-> transactions]]
        /\ UNCHANGED <<ai_vars, scan_vars, vault_vars, foreign_keys, memo_seq, child_seq,
                       im_pc, im_content, existing_memos, im_left, im_item, im_memo_id,
                       im_pending, im_result, items_returned>>

delete_schedule(id) == delete_item("schedules", id)

delete_todo(id) == delete_item("todos", id)

delete_transaction(id) == delete_item("transactions", id)

ItemIds == 1..3

ItemNext ==
    \/ \E id \in ItemIds : delete_schedule(id)
    \/ \E id \in ItemIds : delete_todo(id)
    \/ \E id \in ItemIds : delete_transaction(id)
    \/ \E id \in 1..2 : delete_memo(id)

ItemSpec == ReanalyzeInit /\ [][ItemNext]_vars

AttachmentsNext ==
    \/ \E memo_id \in 1..2 : save_attachment(memo_id)
    \/ \E memo_id \in 1..2 : get_and_delete_select(memo_id)
    \/ get_and_delete_delete

AttachmentsSpec == CostInit /\ [][AttachmentsNext]_vars

BrowsersNext ==
    \/ \E c \in Callers : get_headless_browser(c)
    \/ \E c \in Callers : get_browser(c)
    \/ \E c \in Callers : browser_lock(c)
    \/ \E c \in Callers, launched \in BOOLEAN : browser_launch(c, launched)

BrowsersSpec == CostInit /\ [][BrowsersNext]_vars

\* the post-it windows save and delete the post-it of their own id
PostitsNext ==
    \/ \E widget_id \in {None} \cup {Some(id) : id \in postits.rows} :
          open_widget(widget_id)
    \/ \E id \in postits.windows : save_postit(id)
    \/ \E id \in postits.windows : delete_postit(id)

PostitsSpec == CostInit /\ [][PostitsNext]_vars

MaskInit ==
    /\ MemoFresh /\ foreign_keys
    /\ VaultFresh
    /\ ScanIdle
    /\ CommandsIdle
    /\ mk \in {Unmasked(text) : text \in Texts}
    /\ ExtractIdle
    /\ obs = [op |-> "init"]

MaskNext ==
    \/ mask(mk.text)
    \/ unmask

MaskSpec == MaskInit /\ [][MaskNext]_vars

ExtractInit ==
    /\ MemoFresh /\ foreign_keys
    /\ VaultFresh
    /\ ScanIdle
    /\ CommandsIdle
    /\ MaskIdle
    /\ ej \in {Unextracted(text) : text \in Replies}
    /\ obs = [op |-> "init"]

ExtractNext ==
    \/ extract
    \/ extract_again

ExtractSpec == ExtractInit /\ [][ExtractNext]_vars

(***************************************************************************)
(* Properties of input_memo and of memo deletion                           *)
(***************************************************************************)
ItemStep == obs.op = "input_memo_item"
ResolvedMerge == ItemStep /\ obs.existing # None
DeleteStep == obs.op \in {"delete_memo", "delete_all_memos"}
JoinedTags(item) == join(item.tags, <<",", " ">>)
Sep == <<"\n", "\n", "-", "-", "-", "\n", "\n">>

\* C1 (as stated): an item whose should_merge_with names a memo of the fetched
\* list updates exactly one memo row and inserts none; an item without merge
\* target inserts exactly one memo row and updates none.
C1_AsStated ==
    ItemStep =>
        /\ obs.existing # None =>
              Cardinality(obs.updated) = 1 /\ obs.inserted = {}
        /\ obs.item.should_merge_with = NULL =>
              Cardinality(obs.inserted) = 1 /\ obs.updated = {}

\* C1 (amended): an item whose should_merge_with names a memo of the fetched
\* list inserts no memo row and updates the named row only: exactly that one row
\* when it still exists at the time of the update, no row when it was deleted
\* after the fetch.  An item without merge target inserts exactly one memo row
\* and changes no existing row.
C1_MergeOrInsert ==
    ItemStep =>
        /\ obs.existing # None =>
              /\ obs.inserted = {}
              /\ obs.updated = IF obs.before # None
                               THEN {obs.item.should_merge_with} ELSE {}
              /\ obs.changed \subseteq {obs.item.should_merge_with}
        /\ obs.item.should_merge_with = NULL =>
              /\ Cardinality(obs.inserted) = 1
              /\ obs.updated = {} /\ obs.changed = {}
        /\ obs.deleted = {}

\* a merge into a memo that is still there, next to another memo
C1_Witness ==
    /\ ResolvedMerge
    /\ obs.updated = {obs.item.should_merge_with}
    /\ Cardinality(DOMAIN memos) >= 2

\* C2: an item whose merge identifier does not resolve against the fetched list
\* results in a new memo row, to which its derived rows are linked.
C2_UnresolvedInserts ==
    (ItemStep /\ obs.item.should_merge_with # NULL /\ obs.existing = None) =>
        /\ Cardinality(obs.inserted) = 1
        /\ im_memo_id \in obs.inserted

\* C3 (as stated): a resolved merge leaves content = previous content +
\* separator + new input and formatted_content = previous formatted content +
\* separator + the item's formatted content, where previous is the row as it
\* was when the update ran; id, title and category are unchanged.
C3_AsStated ==
    (ResolvedMerge /\ obs.before # None) =>
        /\ obs.after # None
        /\ obs.after[1].content = obs.before[1].content \o Sep \o obs.content
        /\ obs.after[1].formatted_content =
              obs.before[1].formatted_content \o Sep \o obs.item.formatted_content
        /\ obs.after[1].title = obs.before[1].title
        /\ obs.after[1].category = obs.before[1].category

\* C3 (amended): a resolved merge leaves content = fetched content + separator +
\* new input and formatted_content = fetched formatted content + separator +
\* the item's formatted content, where fetched is the row of the list read at
\* the start of the command; the row keeps its id, title and category.
C3_MergedContent ==
    (ResolvedMerge /\ obs.before # None) =>
        /\ obs.after # None
        /\ obs.after[1].content = obs.existing[1].content \o Sep \o obs.content
        /\ obs.after[1].formatted_content =
              obs.existing[1].formatted_content \o Sep \o obs.item.formatted_content
        /\ obs.after[1].title = obs.before[1].title
        /\ obs.after[1].category = obs.before[1].category

\* a merge whose target was rewritten between the fetch and the update
C3_Witness ==
    /\ ResolvedMerge /\ obs.before # None
    /\ obs.before[1].content # obs.existing[1].content
    /\ obs.item.title # obs.before[1].title

\* C4 (as stated): a resolved merge overwrites summary and tags: the stored
\* tags equal the new item's tags.
C4_AsStated ==
    (ResolvedMerge /\ obs.before # None) =>
        /\ obs.after[1].summary = obs.item.summary
        /\ obs.after[1].tags = JoinedTags(obs.item)

\* C4 (amended): a resolved merge overwrites the summary with the item's
\* summary; the stored tags are the item's tags when the fetched memo had no
\* tags, and otherwise the fetched tags, ", " and the item's tags.
C4_SummaryAndTags ==
    (ResolvedMerge /\ obs.before # None) =>
        /\ obs.after[1].summary = obs.item.summary
        /\ obs.after[1].tags =
              IF obs.existing[1].tags = <<>>
              THEN JoinedTags(obs.item)
              ELSE obs.existing[1].tags \o <<",", " ">> \o JoinedTags(obs.item)

\* a merge into a memo that had tags, with a different summary
C4_Witness ==
    /\ ResolvedMerge /\ obs.before # None
    /\ obs.existing[1].tags # <<>>
    /\ obs.existing[1].summary # obs.item.summary

\* the child table named kind
ChildTable(kind) ==
    IF kind = "schedules" THEN schedules
    ELSE IF kind = "todos" THEN todos ELSE transactions

\* C5: deleting memos deletes no schedule, todo or transaction; the rows that
\* referenced a deleted memo have memo_id = null afterwards and the other rows
\* are unchanged.
C5_DeleteSetsNull ==
    DeleteStep =>
        \A kind \in {"schedules", "todos", "transactions"} :
            /\ DOMAIN ChildTable(kind) = DOMAIN obs.before[kind]
            /\ \A c \in DOMAIN obs.before[kind] :
                  IF obs.before[kind][c].memo_id \in obs.deleted
                  THEN ChildTable(kind)[c] =
                          [obs.before[kind][c] EXCEPT !.memo_id = NULL]
                  ELSE ChildTable(kind)[c] = obs.before[kind][c]


(***************************************************************************)
(* Properties of the secret-key vault                                      *)
(***************************************************************************)
ReadOps == {"get_all_secret_keys", "get_secret_keys_by_provider",
            "get_secret_keys_by_type"}

\* the rows a reader must return, from its WHERE clause
Selected ==
    IF obs.op = "get_all_secret_keys" THEN DOMAIN secret_keys
    ELSE IF obs.op = "get_secret_keys_by_provider"
    THEN {id \in DOMAIN secret_keys : secret_keys[id].provider = obs.arg}
    ELSE {id \in DOMAIN secret_keys : secret_keys[id].key_type = obs.arg}

\* the key_value a reader returned for row id (the set of them)
Returned(id) == {r.key_value : r \in {x \in obs.rows : x.id = id}}

\* C6: the stored text of every row written by save_secret_key or
\* update_secret_key with value S decrypts to Ok(S) under the key it was
\* written with, and while that key is the process key each of the three readers
\* returns the rows of its query with key_value = S.
C6_RoundTrip ==
    /\ \A id \in DOMAIN secret_keys :
          decrypt_value(sk_written[id].key, secret_keys[id].key_value)
             = Ok(sk_written[id].key_value)
    /\ obs.op \in ReadOps =>
          \A id \in Selected :
             sk_written[id].key = ENCRYPTION_KEY =>
                Returned(id) = {sk_written[id].key_value}

C6_Witness ==
    /\ obs.op = "get_secret_keys_by_type"
    /\ \E id \in Selected :
          /\ sk_written[id].by = "update_secret_key"
          /\ sk_written[id].key = ENCRYPTION_KEY
          /\ Returned(id) = {<<195, 169>>}

\* C8: after any sequence of save_secret_key, update_secret_key and
\* delete_secret_key every key_value in the table is base64 text that decodes to
\* a 12-byte nonce followed by the ciphertext of the caller's value, and is
\* never that value itself; every reader returns the decryption of the stored
\* text (or the stored text when decryption fails).
C8_StoredEncrypted ==
    /\ \A id \in DOMAIN secret_keys :
          LET stored == secret_keys[id].key_value
              decoded == BASE64_decode(stored)
          IN  /\ stored # sk_written[id].key_value
              /\ decoded.ok
              /\ Len(decoded.value) >= NonceLen + TagLen
              /\ Take(decoded.value, NonceLen) \in Nonces
              /\ gcm_decrypt(sk_written[id].key, Take(decoded.value, NonceLen),
                             Drop(decoded.value, NonceLen))
                    = Ok(sk_written[id].key_value)
    /\ obs.op \in ReadOps =>
          \A id \in Selected :
             LET stored == secret_keys[id].key_value
                 plain == decrypt_value(ENCRYPTION_KEY, stored)
             IN  Returned(id) = {IF plain.ok THEN plain.value ELSE stored}

C8_Witness ==
    /\ obs.op = "delete_secret_key"
    /\ obs.deleted # {}
    /\ \E id \in DOMAIN secret_keys : sk_written[id].by = "save_secret_key"

\* C9: every secret in the table still decrypts, under the key of the running
\* process, to the value it was stored with, whatever commands and restarts
\* came between.
C9_SecretsSurvive ==
    \A id \in DOMAIN secret_keys :
       decrypt_value(ENCRYPTION_KEY, secret_keys[id].key_value)
          = Ok(sk_written[id].key_value)

\* C7: every read succeeds and returns exactly the rows of its query; a row
\* whose stored text does not decrypt comes back with key_value equal to the
\* stored text, every other row with its decrypted value.
C7_FailedDecryptReturnsStored ==
    obs.op \in ReadOps =>
       /\ obs.ok
       /\ {r.id : r \in obs.rows} = Selected
       /\ \A id \in Selected :
             LET stored == secret_keys[id].key_value
                 plain == decrypt_value(ENCRYPTION_KEY, stored)
             IN  /\ ~plain.ok => Returned(id) = {stored}
                 /\ plain.ok => Returned(id) = {plain.value}

C7_Witness ==
    /\ obs.op = "get_secret_keys_by_provider"
    /\ \E id \in Selected : ~decrypt_value(ENCRYPTION_KEY, secret_keys[id].key_value).ok
    /\ \E id \in Selected : Returned(id) = {<<66, 67>>}

(***************************************************************************)
(* Properties of the directory scan                                        *)
(***************************************************************************)
\* the result of a finished call that was not refused for a missing path
Finished(p) == scan_pc[p] = "done" /\ scan_result[p].ok

FolderCalls(p) == {i \in DOMAIN on_file[p] : on_file[p][i].is_folder}
FileCalls(p) == {i \in DOMAIN on_file[p] : ~on_file[p][i].is_folder}

\* C10 as stated: whenever the flag became set while the scan was running and
\* stayed set until it returned, the result is Ok and its recommendations begin
\* with the scan-interrupted notice.
C10_AsStated ==
    \A p \in Scans :
       scan_pc[p] = "done" /\ set_during[p] =>
          /\ scan_result[p].ok
          /\ scan_result[p].recommendations[1] = Notice

\* a step of call p that reads a directory or invokes the callback
Activity(p) == read_dirs'[p] # read_dirs[p] \/ on_file'[p] # on_file[p]

\* C10: once a check of the flag by a scan has found it set, no step taken
\* while the flag is set reads a directory or invokes the callback; the call
\* returns Ok, built from the files and folders reported so far, and its
\* recommendations begin with the scan-interrupted notice.
C10_CancelStops ==
    /\ [][\A p \in Scans : cancelled[p] /\ SCAN_CANCELLED => ~Activity(p)]_vars
    /\ [](\A p \in Scans :
            /\ scan_pc[p] = "done" /\ cancelled[p] => scan_result[p].ok
            /\ Finished(p) =>
                  /\ scan_result[p].total_scanned = Cardinality(FileCalls(p))
                  /\ scan_result[p].total_folders = Cardinality(FolderCalls(p))
                  /\ cancelled[p] => scan_result[p].recommendations[1] = Notice
                  /\ ~cancelled[p] => scan_result[p].recommendations[1] # Notice)

C10_Witness ==
    \E p \in Scans :
       /\ Finished(p) /\ cancelled[p] /\ set_during[p]
       /\ scan_result[p].recommendations[1] = Notice
       /\ Len(read_dirs[p]) = 1
       /\ scan_result[p].total_folders = 1

(***************************************************************************)
(* Properties of the cost computation                                      *)
(***************************************************************************)
\* the price table as documented: model -> (input, output) per million tokens
PriceTable ==
    [model \in KnownModels |->
       IF model = "gemini-2.0-flash-lite" THEN <<75, 300>>
       ELSE IF model \in {"gemini-2.0-flash", "gemini-2.5-flash-lite"} THEN <<100, 400>>
       ELSE IF model = "gemini-2.5-flash" THEN <<300, 2500>>
       ELSE IF model = "gemini-2.5-pro" THEN <<1250, 10000>>
       ELSE IF model = "gemini-3-flash-preview" THEN <<500, 3000>>
       ELSE <<2000, 12000>>]

\* C11: every computed cost equals input_tokens * p_in / 1,000,000 +
\* output_tokens * p_out / 1,000,000 with the price pair of the model's table
\* row, or (0.10, 0.40) for a model that is not in the table; the inline
\* computations equal calculate_cost for the same arguments.
C11_CostFormula ==
    cost_obs.op # "init" =>
       LET p == IF cost_obs.model \in KnownModels THEN PriceTable[cost_obs.model]
                ELSE <<100, 400>>
       IN  /\ get_model_price(cost_obs.model) = p
           /\ cost_obs.cost.den = 1000000
           /\ cost_obs.cost.num = cost_obs.input_tokens * p[1]
                                   + cost_obs.output_tokens * p[2]
           /\ cost_obs.cost = calculate_cost(cost_obs.model, cost_obs.input_tokens,
                                             cost_obs.output_tokens)

C11_Witness ==
    /\ cost_obs.op = "decide_next_action"
    /\ cost_obs.model = "gemini-1.5-flash"
    /\ cost_obs.input_tokens = 2 /\ cost_obs.output_tokens = 1
    /\ cost_obs.cost.num = 600

(***************************************************************************)
(* Properties of input_memo under database errors                          *)
(***************************************************************************)
Tables == [memos |-> memos, schedules |-> schedules, todos |-> todos,
           transactions |-> transactions]

\* no row of a derived table is removed or changed, no memo row is removed
NoRowLost ==
    /\ DOMAIN memos \subseteq DOMAIN memos'
    /\ \A id \in DOMAIN schedules : id \in DOMAIN schedules' /\ schedules'[id] = schedules[id]
    /\ \A id \in DOMAIN todos : id \in DOMAIN todos' /\ todos'[id] = todos[id]
    /\ \A id \in DOMAIN transactions :
          id \in DOMAIN transactions' /\ transactions'[id] = transactions[id]

\* C12: when a save fails inside input_memo the command returns Err and the
\* tables are exactly as the failing call found them; no step of input_memo
\* removes a row, so the rows written for earlier items and for the failing
\* item so far stay committed.
C12_NoRollback ==
    /\ [](obs.op = "input_memo_db_error" =>
            /\ im_result = "Err"
            /\ im_pc = "idle"
            /\ Tables = obs.before)
    /\ [][NoRowLost]_vars

C12_Witness ==
    /\ obs.op = "input_memo_db_error"
    /\ obs.at = "derived"
    /\ Cardinality(DOMAIN memos) = 2
    /\ Cardinality(DOMAIN schedules) = 2
    /\ Cardinality(DOMAIN todos) = 1
    /\ im_result = "Err"

(***************************************************************************)
(* Properties of the database mutex                                        *)
(***************************************************************************)
\* thread t is between taking the guard and dropping it
Guarded(t) == db_pc[t] = "statements"

\* C13: at most one thread is between acquiring and releasing the mutex; a db
\* function runs statements only while its thread holds the mutex, it holds the
\* mutex at no other time (so it released it on every return), and a thread
\* never waits for the mutex while holding it.
C13_MutualExclusion ==
    /\ Cardinality({t \in Threads : Guarded(t)}) <= 1
    /\ \A t \in Threads :
          /\ Guarded(t) <=> DB = t
          /\ db_left[t] > 0 => DB = t
          /\ db_pc[t] = "lock" => DB # t

C13_Witness ==
    /\ db_fn[1] = "get_and_delete_attachments_by_memo"
    /\ Guarded(1)
    /\ db_pc[2] = "lock"
    /\ db_outer[2] # None

(***************************************************************************)
(* Properties of extract_data_batch                                        *)
(***************************************************************************)
\* C14: extract_data_batch returns Ok with one result per url, in input order;
\* a url whose extraction failed has the entry {url, data = {"error": e}, 0
\* tokens, 0 cost}, and the urls after it are still processed.
C14_BatchNeverFails ==
    eb_pc = "returned" =>
      /\ eb_return # None /\ eb_return[1].ok
      /\ Len(eb_outcomes) = Len(eb_urls)
      /\ LET results == eb_return[1].value IN
           /\ Len(results) = Len(eb_urls)
           /\ \A i \in 1..Len(eb_urls) :
                /\ results[i].url = eb_urls[i]
                /\ ~eb_outcomes[i].ok =>
                     /\ results[i].data =
                          [key |-> "error", value |-> eb_outcomes[i].error]
                     /\ results[i].input_tokens = 0
                     /\ results[i].output_tokens = 0
                     /\ results[i].cost_usd.num = 0
                /\ eb_outcomes[i].ok => results[i] = eb_outcomes[i].value

C14_Witness ==
    /\ eb_pc = "returned"
    /\ Len(eb_urls) = 2
    /\ ~eb_outcomes[1].ok
    /\ eb_outcomes[2].ok
    /\ eb_outcomes[2].value.input_tokens > 0

(***************************************************************************)
(* Properties of the API key check                                         *)
(***************************************************************************)
\* C15: an AI command that reads an empty (or no) 'gemini_api_key' returns Err,
\* sends no request to the AI service and writes no row.
C15_NoKeyNoCall ==
    cmd_obs.cmd # "none" /\ cmd_obs.api_key = <<>> =>
      /\ cmd_obs.result = "Err"
      /\ remote_calls = cmd_obs.calls_before
      /\ api_usage = cmd_obs.rows_before

C15_Witness ==
    /\ cmd_obs.cmd = "run_research"
    /\ cmd_obs.api_key = <<>>
    /\ db_get_setting(settings, K_gemini_api_key) = <<>>
    /\ cmd_obs.calls_before > 0
    /\ api_usage > 0

(***************************************************************************)
(* Properties of a merge into a memo that changed after the fetch          *)
(***************************************************************************)
\* the merge target no longer was, when the update ran, the row that was fetched
StaleMerge ==
    /\ ResolvedMerge
    /\ obs.before # None
    /\ obs.before[1] # obs.existing[1]

\* C16: a merge into a memo that was modified after the fetch overwrites the
\* modification: the row ends with content = fetched content + separator + new
\* input and formatted_content = fetched formatted content + separator + the
\* item's formatted content, whatever the row held in between.
C16_StaleMergeOverwrites ==
    StaleMerge =>
        /\ obs.after[1].content = obs.existing[1].content \o Sep \o obs.content
        /\ obs.after[1].formatted_content =
              obs.existing[1].formatted_content \o Sep \o obs.item.formatted_content

\* the second item of one submission merges into the memo the first item
\* merged into
C16_Witness ==
    /\ StaleMerge
    /\ obs.before[1].content = obs.existing[1].content \o Sep \o obs.content
    /\ obs.before[1].formatted_content # obs.after[1].formatted_content

(***************************************************************************)
(* Properties of run_agent                                                 *)
(***************************************************************************)
Bound == IF ag_input < 15 THEN ag_input ELSE 15

ReturnedDone(d) == d.ok /\ d.value.action_type \notin {"Click", "click"}

\* C17: run_agent asks for at most min(max_steps, 15) actions and none after a
\* Done action; the recorded steps are numbered 1, 2, ...; on_progress has been
\* called once per recorded step, in order; with max_steps = 0 no step is
\* recorded; and a run that entered its loop returns.
C17_BoundedLoop ==
    /\ [](/\ Len(ag_decided) <= Bound
          /\ \A i \in 1..Len(ag_decided) : ReturnedDone(ag_decided[i]) => i = Len(ag_decided)
          /\ \A i \in 1..Len(ag_decided) :
                ReturnedDone(ag_decided[i]) => ag_pc = "returned"
          /\ \A i \in 1..Len(steps) : steps[i].step_number = i
          /\ ag_progress = steps
          /\ Len(steps) = Cardinality({i \in 1..Len(ag_decided) : ag_decided[i].ok})
          /\ (ag_pc = "returned" /\ ag_input = 0 => steps = <<>>))
    /\ (ag_pc = "for" ~> ag_pc = "returned")

C17_Witness ==
    /\ ag_pc = "returned"
    /\ ag_input = 16
    /\ Len(steps) = 15
    /\ steps[15].action.action_type = "Click"
    /\ steps[15].result = "action failed"

\* the run returned Ok(AgentResult)
AgentOk == ag_result # None /\ ag_result[1].ok

\* C18: an Ok result has success = true exactly when its last step's action is
\* Done, and a step's action is Done exactly when the model returned "done" or
\* an action type outside the known ones; a result with success = false has
\* exactly min(max_steps, 15) steps and the max-steps error as final_data; the
\* totals are the sums over the decide calls made.
C18_SuccessIffDone ==
    AgentOk =>
      LET r == ag_result[1].value
          n == Len(r.steps)
      IN  /\ r.success <=> (n > 0 /\ r.steps[n].action.action_type = "Done")
          /\ Len(ag_decided) = n
          /\ \A i \in 1..n :
                r.steps[i].action.action_type = "Done" <=> ReturnedDone(ag_decided[i])
          /\ ~r.success =>
                /\ n = Bound
                /\ r.final_data = Some([key |-> "error", value |-> "max steps exceeded"])
          /\ r.total_input_tokens = Sum([i \in 1..n |-> ag_decided[i].value.input_tokens])
          /\ r.total_output_tokens = Sum([i \in 1..n |-> ag_decided[i].value.output_tokens])
          /\ r.total_cost_usd =
                per_million(Sum([i \in 1..n |-> ag_decided[i].value.cost.num]))

\* the model answered with an action type the program does not know
C18_Witness ==
    /\ AgentOk
    /\ ag_result[1].value.success
    /\ Len(steps) = 3
    /\ ag_decided[3].value.action_type = "hover"
    /\ ag_result[1].value.total_input_tokens = 3

(***************************************************************************)
(* Properties of run_research                                              *)
(***************************************************************************)
InProgress(t) == {i \in 1..7 : t[i] = "in_progress"}
Completed(t) == {i \in 1..7 : t[i] = "completed"}

\* completed tasks first, then at most one in progress, then pending ones
WellFormed(t) ==
    \E k \in 0..7 :
        /\ Completed(t) = 1..k
        /\ InProgress(t) \subseteq {k + 1}
        /\ \A i \in 1..7 : t[i] \in {"completed", "in_progress", "pending"}

\* the event stream: steps 1..7 never going back, in_progress before
\* completed for every step, every task list well formed, nothing 'failed'
EventsInOrder ==
    /\ \A i \in 1..Len(events) :
          /\ events[i].step \in 1..7
          /\ events[i].status \in {"in_progress", "completed"}
          /\ WellFormed(events[i].tasks)
          /\ \A j \in 1..(i - 1) : events[j].step <= events[i].step
          /\ events[i].status = "completed" =>
                \E j \in 1..(i - 1) : /\ events[j].step = events[i].step
                                      /\ events[j].status = "in_progress"

RunFailed == rs_result # None /\ ~rs_result[1].ok
LastEvent == events[Len(events)]

\* C19 (as stated): the events are in order and well formed, and a run that
\* fails after its first event leaves one task in progress.
C19_AsStated ==
    /\ EventsInOrder
    /\ RunFailed /\ events # <<>> =>
          /\ InProgress(tasks) # {}
          /\ LastEvent.status = "in_progress"

\* C19 (amended): the events are in order and well formed; a run that fails in
\* the plan, page-selection or final-report call leaves that task (1, 3, 7) in
\* progress; a run that fails for an empty result list has reported task 2
\* completed as its last event, and a run that fails in the usage log write
\* has reported all seven tasks completed; no task is in progress in either.
C19_ProgressEvents ==
    /\ EventsInOrder
    /\ RunFailed /\ events # <<>> =>
          LET e == rs_result[1].error IN
          /\ e \in {"plan", "select", "compile"} =>
                /\ InProgress(tasks) =
                      {IF e = "plan" THEN 1 ELSE IF e = "select" THEN 3 ELSE 7}
                /\ LastEvent.status = "in_progress"
                /\ LastEvent.tasks = tasks
          /\ e = "no results" =>
                /\ InProgress(tasks) = {}
                /\ Completed(tasks) = 1..2
                /\ LastEvent.step = 2 /\ LastEvent.status = "completed"
          /\ e = "usage log" =>
                /\ Completed(tasks) = 1..7
                /\ LastEvent.step = 7 /\ LastEvent.status = "completed"
          /\ e \in {"plan", "select", "compile", "no results", "usage log"}

\* every search of the run failed: the search task is reported completed and
\* the run returns Err
C19_Witness ==
    /\ RunFailed
    /\ rs_result[1].error = "no results"
    /\ rs_skipped = {"google", "naver"}
    /\ search_queries = 2

\* C20 (as stated): the run returns Err only for a missing search key, a
\* failed plan, page-selection or final-report call, an empty result list or
\* a failed usage log write.
C20_AsStated ==
    RunFailed =>
        rs_result[1].error \in {"search key", "plan", "select", "compile",
                                "no results", "usage log"}

\* C20 (amended): the run returns Err only for an empty Gemini API key, a
\* missing search key, a failed plan, page-selection or final-report call, an
\* empty result list or a failed usage log write; a failed search, fetch,
\* extract_insights or summarize_source call of one item ends neither the run
\* nor its loop.
C20_ItemFailuresSkipped ==
    /\ RunFailed =>
          rs_result[1].error \in {"gemini key", "search key", "plan", "select",
                                  "compile", "no results", "usage log"}
    /\ rs_pc \in {"analyze", "summarize", "compile", "log"}
          => Len(events) >= 9 + Len(selected_urls)
    /\ rs_pc \in {"summarize", "compile", "log"}
          => Len(events) >= 11 + Len(selected_urls) + Len(crawled_contents)

C20_Witness ==
    /\ rs_result # None /\ rs_result[1].ok
    /\ rs_skipped = {"google", "naver", "crawl", "insights"}
    /\ Len(rs_result[1].value.source_summaries) = 1

(***************************************************************************)
(* reanalyze_memo                                                          *)
(***************************************************************************)
ReanalyzeDone == ra.pc = "idle" /\ ra.runs > 0

TableOf(kind) ==
    IF kind = "schedules" THEN schedules
    ELSE IF kind = "todos" THEN todos ELSE transactions

\* the titles of the rows of a child table linked to the reanalyzed memo
LinkedTitles(tbl) == {tbl[x].title : x \in Linked(tbl, ra.id)}

ItemTitles(kind) ==
    LET analysis == ra.item[1]
        list == IF kind = "schedules" THEN analysis.schedules
                ELSE IF kind = "todos" THEN analysis.todos
                ELSE analysis.transactions
    IN  {list[i] : i \in 1..Len(list)}

ItemDeleted == obs.op = "delete_item"

\* the rows other than the deleted item that were linked to memo m
OtherLinked(kind, m) ==
    Linked(obs.before[kind], m) \ (IF kind = obs.kind THEN {obs.id} ELSE {})

\* C22: after delete_schedule, delete_todo or delete_transaction neither the
\* item nor the memo it was linked to exists, every other schedule, todo and
\* transaction that was linked to that memo still exists with its memo link
\* cleared, and for an item without a memo link or a missing id no memo is
\* deleted.
C22_ItemAndMemoDeleted ==
    ItemDeleted =>
       /\ obs.id \notin DOMAIN TableOf(obs.kind)
       /\ obs.memo_id = None => memos = obs.before.memos
       /\ obs.memo_id # None =>
             /\ obs.memo_id[1] \notin DOMAIN memos
             /\ \A kind \in ChildTables : \A x \in OtherLinked(kind, obs.memo_id[1]) :
                   /\ x \in DOMAIN TableOf(kind)
                   /\ TableOf(kind)[x].memo_id = NULL

(***************************************************************************)
(* The cancellation flag                                                   *)
(***************************************************************************)
Starts(p) == scan_pc[p] = "idle" /\ scan_pc'[p] # "idle"

\* the directory on top of the work stack of call p can be read
TopReadable(p) ==
    /\ stack[p] # <<>>
    /\ stack[p][Len(stack[p])][2] <= MaxDepth
    /\ stack[p][Len(stack[p])][1] \in DOMAIN Tree

Pushed(p) ==
    {popped[p][1][1]} \cup {on_file[p][i].path : i \in FolderCalls(p)}

\* the paths of the entries of the tree whose name starts with '.'
Hidden ==
    UNION {{Tree[dir][i].path : i \in {j \in DOMAIN Tree[dir] :
                                        starts_with_dot(Tree[dir][j].name)}} :
           dir \in DOMAIN Tree}

\* the popped directories of depth at most 10, in pop order
RECURSIVE Shallow(_)
Shallow(pops) ==
    IF pops = <<>> THEN <<>>
    ELSE IF Head(pops)[2] <= MaxDepth THEN <<Head(pops)[1]>> \o Shallow(Tail(pops))
    ELSE Shallow(Tail(pops))

\* C24: a scan that is not cancelled returns, also on the tree with the link
\* cycle; no directory is popped twice and at the end the popped directories
\* are exactly the pushed ones; the directories read are the popped ones of
\* depth at most 10; a directory of depth 11 is counted and reported but not
\* read, and nothing deeper is pushed; an entry whose name starts with '.' is
\* neither reported nor pushed.
C24_WalkTerminates ==
    /\ (scan_pc[Walker] = "while") ~> (scan_pc[Walker] = "done")
    /\ [](/\ \A i, j \in DOMAIN popped[Walker] :
               popped[Walker][i][1] = popped[Walker][j][1] => i = j
          /\ read_dirs[Walker] = Shallow(popped[Walker])
          /\ \A i \in DOMAIN popped[Walker] :
                /\ popped[Walker][i][2] <= MaxDepth + 1
                /\ popped[Walker][i][1] \notin Hidden
                /\ i > 1 => \E c \in FolderCalls(Walker) :
                               on_file[Walker][c].path = popped[Walker][i][1]
          /\ \A i \in DOMAIN on_file[Walker] : on_file[Walker][i].path \notin Hidden
          /\ total_folders[Walker] = Cardinality(FolderCalls(Walker))
          /\ Finished(Walker) =>
                /\ ~cancelled[Walker]
                /\ stack[Walker] = <<>>
                /\ {popped[Walker][i][1] : i \in DOMAIN popped[Walker]} = Pushed(Walker)
                /\ Len(popped[Walker]) = 1 + Cardinality(FolderCalls(Walker)))

\* the scan of /c has returned: it popped /c/l/../l of depth 11 and read
\* every directory down to depth 10
C24_Witness ==
    /\ Finished(Walker)
    /\ popped[Walker][1] = <<Cycle, 0>>
    /\ <<Through(MaxDepth + 1), MaxDepth + 1>> \in
          {popped[Walker][i] : i \in DOMAIN popped[Walker]}
    /\ Len(read_dirs[Walker]) = MaxDepth + 1
    /\ Through(MaxDepth + 1) \notin {read_dirs[Walker][i] : i \in DOMAIN read_dirs[Walker]}
    /\ scan_result[Walker].total_folders = MaxDepth + 1
    /\ scan_result[Walker].total_scanned = MaxDepth + 1

(***************************************************************************)
(* get_and_delete_attachments_by_memo                                      *)
(***************************************************************************)
\* C25: the list returned by get_and_delete_attachments_by_memo is exactly
\* the set of attachment rows the call removed, whatever save_attachment
\* calls for the same memo ran meanwhile.
C25_ReturnedAreRemoved ==
    att.pc = "idle" /\ att.calls > 0 => att.returned = att.removed

(***************************************************************************)
(* The browser caches                                                      *)
(***************************************************************************)
\* C26: of each kind at most one browser is ever live and at most one caller
\* is in the launch; the cache holds exactly the live browser; every Ok
\* returned is the cached instance; a launch is attempted only while the
\* cache is empty, and a failed one leaves it empty.
C26_OneBrowserPerKind ==
    /\ [](\A k \in BrowserKinds :
            /\ Cardinality(br.live[k]) <= 1
            /\ Cardinality({c \in Callers : br.pc[c] = "launch" /\ br.kind[c] = k}) <= 1
            /\ br.cache[k] = None <=> br.live[k] = {}
            /\ br.cache[k] # None => br.live[k] = {br.cache[k][1]}
            /\ \A c \in Callers :
                  (br.kind[c] = k /\ br.got[c] # None /\ br.got[c][1].ok)
                     => br.cache[k] = Some(br.got[c][1].value))
    /\ [][\A k \in BrowserKinds :
            br.launches'[k] # br.launches[k] =>
               /\ br.cache[k] = None
               /\ br.live'[k] = {} => br.cache'[k] = None]_vars

\* the first headless launch failed, the second caller launched browser 2,
\* and the first caller, calling again, got the same browser without a launch
C26_Witness ==
    /\ br.launches["headless"] = 2
    /\ br.live["headless"] = {2}
    /\ \A c \in Callers : br.kind[c] = "headless" /\ br.got[c] = Some(Ok(2))

(***************************************************************************)
(* run_agent: the page and the recorded steps                              *)
(***************************************************************************)
\* C27: when run_agent returns after it opened the page, the page is closed
\* and the returned value carries every step recorded so far, also after a
\* failed decide_next_action; a failed action execution is recorded as the
\* result text of its step and the loop goes on.
C27_PageClosedStepsKept ==
    /\ \A i \in DOMAIN steps :
          steps[i].step_number = i /\ steps[i].result \in {"ok", "action failed"}
    /\ (ag_pc = "returned" /\ page # "none") =>
          /\ page = "closed"
          /\ ag_result[1].ok
          /\ ag_result[1].value.steps = steps

(***************************************************************************)
(* The post-it limit                                                       *)
(***************************************************************************)
\* C28: the postits table never holds more than 10 rows, and open_widget
\* with the id of an existing post-it is never rejected.
C28_AtMostTenPostits ==
    /\ Cardinality(postits.rows) <= POSTIT_LIMIT
    /\ (postits.last.op = "open_widget" /\ postits.last.widget_id # None
          /\ postits.last.widget_id[1] \in postits.last.existing)
         => postits.last.ok

(***************************************************************************)
(* Masking                                                                 *)
(***************************************************************************)
\* C29: unmask_text applied to the masked text and the mappings of
\* mask_sensitive_info(t) gives t back, and the tokens of the mappings are
\* pairwise distinct.
C29_MaskingReversible ==
    /\ mk.pc # "text" =>
          \A i, j \in DOMAIN mk.result[1].mappings :
             mk.result[1].mappings[i][1] = mk.result[1].mappings[j][1] => i = j
    /\ mk.pc = "restored" => mk.restored = Some(mk.text)

(***************************************************************************)
(* extract_json                                                            *)
(***************************************************************************)
\* the replies that are a JSON document and nothing else
BareDocuments ==
    { <<"{", "}">>, <<"[", "]">>, <<"[", "1", "]">>, <<"[", "1", "1", "]">>,
      <<"[", "[", "]", "]">>, <<"[", "{", "}", "]">> }

\* C30: a reply that is a bare JSON object or array comes back unchanged,
\* and extract_json applied to its own output changes nothing.
C30_BareJsonUnchanged ==
    /\ (ej.pc # "reply" /\ ej.text \in BareDocuments) => ej.once = Some(ej.text)
    /\ ej.pc = "twice" => ej.twice = ej.once
====
